---- MODULE Spec2Model ----
(***************************************************************************)
(* Adaptive Taylor integrator of heyoka (src/src/taylor.cpp): the scalar   *)
(* stepper taylor_adaptive_impl<T> and the batch stepper                   *)
(* taylor_adaptive_batch_impl<T>.                                          *)
(*                                                                         *)
(* The floating-point type T is modelled by a small binary floating-point  *)
(* format: MantBits bits of mantissa, exponents 0..MaxExp, values counted  *)
(* in units of 1/Unit, round-to-nearest-even, overflow to infinity, NaN.   *)
(* Signed zeros are not distinguished.  The JIT-compiled jet functions     *)
(* (m_jet_f_r, m_jet_f_a) are external to taylor.cpp: a call of one of     *)
(* them is a nondeterministic choice of the coefficients it writes.        *)
(***************************************************************************)
EXTENDS Integers, Sequences, FiniteSets, TLC

\* ------------------------------------------------------------------------
\* The floating-point type T
\* ------------------------------------------------------------------------

MantBits == 2
MaxExp == 4

RECURSIVE Pow2(_)
Pow2(e) == IF e = 0 THEN 1 ELSE 2 * Pow2(e - 1)

\* the number of units that make the value 1
Unit == Pow2(MantBits + 1)

RECURSIVE IPow(_, _)
IPow(b, k) == IF k = 0 THEN 1 ELSE b * IPow(b, k - 1)

\* first magnitude that no longer fits the format
Overflow == Pow2(MantBits) * Pow2(MaxExp)

PInf == Overflow
MInf == -Overflow
NaN == 2 * Overflow

PosFin == {m * Pow2(e) : m \in 1..(Pow2(MantBits) - 1), e \in 0..MaxExp}
NonNegFin == PosFin \cup {0}
FinSet == NonNegFin \cup {-f : f \in PosFin}
T == FinSet \cup {PInf, MInf, NaN}

One == Unit

SetMax(S) == CHOOSE x \in S : \A y \in S : y <= x
SetMin(S) == CHOOSE x \in S : \A y \in S : x <= y

\* round-half-even choice between two neighbouring values of the format
TieEven(lo, hi) == IF (lo \div (hi - lo)) % 2 = 0 THEN lo ELSE hi

\* p/q (p >= 0, q > 0) rounded to the nearest value of the format
RoundPos(p, q) ==
    IF p >= Overflow * q THEN PInf
    ELSE LET lo == SetMax({f \in NonNegFin : f * q <= p})
             hi == SetMin({f \in PosFin \cup {Overflow} : f * q >= p})
         IN  IF lo = hi THEN lo
             ELSE IF 2 * p < (lo + hi) * q THEN lo
             ELSE IF 2 * p > (lo + hi) * q THEN hi
             ELSE TieEven(lo, hi)

RoundQ(p, q) == IF p >= 0 THEN RoundPos(p, q) ELSE -RoundPos(-p, q)

isnan(x) == x = NaN
isinf(x) == x = PInf \/ x = MInf
isfinite(x) == x # NaN /\ x # PInf /\ x # MInf

Sgn(x) == IF x < 0 THEN -1 ELSE 1

Neg(a) == IF a = NaN THEN NaN ELSE -a
abs(a) == IF a = NaN THEN NaN ELSE IF a < 0 THEN -a ELSE a

Lt(a, b) == a # NaN /\ b # NaN /\ a < b
Le(a, b) == a # NaN /\ b # NaN /\ a <= b
Gt(a, b) == Lt(b, a)
Ge(a, b) == Le(b, a)

\* std::max(a, b) is (a < b) ? b : a;  std::min(a, b) is (b < a) ? b : a
max(a, b) == IF Lt(a, b) THEN b ELSE a
min(a, b) == IF Lt(b, a) THEN b ELSE a

fadd(a, b) ==
    IF a = NaN \/ b = NaN THEN NaN
    ELSE IF isinf(a) /\ isinf(b) THEN (IF a = b THEN a ELSE NaN)
    ELSE IF isinf(a) THEN a
    ELSE IF isinf(b) THEN b
    ELSE RoundQ(a + b, 1)


fmul(a, b) ==
    IF a = NaN \/ b = NaN THEN NaN
    ELSE IF isinf(a) \/ isinf(b)
         THEN (IF a = 0 \/ b = 0 THEN NaN
               ELSE IF Sgn(a) = Sgn(b) THEN PInf ELSE MInf)
    ELSE RoundQ(a * b, Unit)

fdiv(a, b) ==
    IF a = NaN \/ b = NaN THEN NaN
    ELSE IF isinf(a) /\ isinf(b) THEN NaN
    ELSE IF isinf(a) THEN (IF Sgn(a) = Sgn(b) THEN PInf ELSE MInf)
    ELSE IF isinf(b) THEN 0
    ELSE IF b = 0 THEN (IF a = 0 THEN NaN ELSE IF a > 0 THEN PInf ELSE MInf)
    ELSE RoundQ(a * Unit * Sgn(b), b * Sgn(b))

\* detail::pow(x, m_inv_order[k]): the k-th root of x, rounded
fpow_inv(x, k) ==
    IF x = NaN \/ x < 0 THEN NaN
    ELSE IF x = PInf THEN PInf
    ELSE LET tgt == x * IPow(Unit, k - 1)
             lo == SetMax({f \in NonNegFin : IPow(f, k) <= tgt})
             hi == SetMin({f \in PosFin : IPow(f, k) >= tgt})
         IN  IF lo = hi THEN lo
             ELSE IF IPow(2, k) * tgt < IPow(lo + hi, k) THEN lo
             ELSE IF IPow(2, k) * tgt > IPow(lo + hi, k) THEN hi
             ELSE TieEven(lo, hi)

\* max(2, ceil(-log(tol) / 2 + 1)): the least k >= 2 with tol >= exp(-2 (k - 1));
\* exp(-2) = 0.1353..., exp(-4) = 0.0183...
taylor_order(tol) ==
    IF tol * 10000 >= 1353 * Unit THEN 2
    ELSE IF tol * 10000 >= 183 * Unit THEN 3
    ELSE 4

\* the operations of T, tabulated once over the values of the format
MaxRoot == SetMax({taylor_order(tol) : tol \in PosFin})
AddTab == [a \in T |-> [b \in T |-> fadd(a, b)]]
MulTab == [a \in T |-> [b \in T |-> fmul(a, b)]]
DivTab == [a \in T |-> [b \in T |-> fdiv(a, b)]]
PowTab == [x \in T |-> [k \in 1..MaxRoot |-> fpow_inv(x, k)]]

Add(a, b) == AddTab[a][b]
Sub(a, b) == AddTab[a][Neg(b)]
Mul(a, b) == MulTab[a][b]
Div(a, b) == DivTab[a][b]
pow_inv_order(x, k) == PowTab[x][k]

\* the number of entries the constructor gives to m_jet
m_jet_size(max_order, n_vars, batch_size) == (max_order + 1) * n_vars * batch_size

\* an m_inv_order resized to max_order entries
m_inv_order_short(max_order) ==
    [i \in 0..(max_order - 1) |-> IF i = 0 THEN 0 ELSE Div(One, i * One)]

\* m_inv_order as the constructor leaves it: max_order + 1 entries, the
\* first one value-initialised, the others 1 / static_cast<T>(i)
m_inv_order(max_order) ==
    [i \in 0..max_order |-> IF i = 0 THEN 0 ELSE Div(One, i * One)]

\* the indices at which a step of the given order reads the jet for the
\* batch element batch_idx
jet_reads(order, nvars, batch_size, batch_idx) ==
    UNION {{(order - 1) * nvars * batch_size + i * batch_size + batch_idx,
            order * nvars * batch_size + i * batch_size + batch_idx} : i \in 0..(nvars - 1)}


\* ------------------------------------------------------------------------
\* The scalar integrator taylor_adaptive_impl<T>
\* ------------------------------------------------------------------------

VARIABLES
    m_state,      \* the state vector
    m_time,       \* the time
    m_rtol,       \* relative tolerance
    m_atol,       \* absolute tolerance
    m_order_r,    \* Taylor order of the relative regime
    m_order_a,    \* Taylor order of the absolute regime
    pc,           \* "idle", or "fwd"/"bwd" inside a loop of propagate_until
    prop,         \* the locals of the running propagate_until call
    last,         \* argument and result of the most recent step_impl call
    hist,         \* the step_impl results of the current propagate_until call
    ret,          \* what the most recent API call returned or threw
    calls,        \* the number of API calls made so far
    nf_seen,      \* step_impl calls that returned err_nf_state since the state was last set
    m_states,     \* batch integrator: the state vectors, entry i * batch_size + batch_idx
    m_times,      \* batch integrator: the time of each batch element
    res,          \* batch integrator: the vector the last step wrote its results to
    m_h,          \* batch integrator: the timestep of each batch element in the last update
    sys,          \* decomposition: the system of equations handed to taylor_decompose
    dec           \* decomposition: what the last call on expressions returned

\* the fields of the batch integrator
\* the state of the expression layer
dec_vars == <<sys, dec>>

bvars == <<m_states, m_times, res, m_h, dec_vars>>

\* the fields and the bookkeeping of the scalar integrator only
scalar_vars == <<m_state, m_time, pc, prop, last, hist, nf_seen, dec_vars>>

svars == <<m_state, m_time, m_rtol, m_atol, m_order_r, m_order_a, pc, prop, last, hist, ret,
           calls, nf_seen, m_states, m_times, res, m_h, sys, dec>>

\* no call on expressions was made
NoDec == [op |-> "none", exc |-> "none", n_eq |-> 0, orig |-> <<>>, vars |-> <<>>,
          pre |-> <<>>, dc |-> <<>>, assert_failed |-> FALSE, eq |-> FALSE]

\* number of state variables of the system
NVars == 2
\* iterations explored in a loop of propagate_until
MaxLoop == 3
\* API calls explored on one integrator
MaxCalls == 3
\* stands for std::numeric_limits<std::uint32_t>::max(), the initial min_order:
\* a value above every Taylor order, within the range of the model's integers
uint32_max == 1000000

\* what a jet function may write for one order: one coefficient per variable
JetRowVals == {[i \in 1..NVars |-> 0],
               [i \in 1..NVars |-> IF i = 1 THEN One ELSE 0],
               [i \in 1..NVars |-> IF i = NVars THEN PInf ELSE 0]}
InitStates == {[i \in 1..NVars |-> IF i = 1 THEN One ELSE 0],
               [i \in 1..NVars |-> IF i = 1 THEN 3 * One ELSE One]}
TolPairs == {<<2, 2>>, <<1, 2>>, <<2, 1>>}
StepArgs == {NaN, 0, -One}
TimeArgs == {0, 6, PInf}
SetTimeArgs == {-1, PInf}
DeltaArgs == {One, NaN}
MaxStepsArgs == {0, 2}
StateArgs == {[i \in 1..NVars |-> IF i = NVars THEN One ELSE 0],
              [i \in 1..NVars |-> IF i = NVars THEN PInf ELSE One],
              [i \in 1..(NVars - 1) |-> One]}

ErrOutcomes == {"err_nf_state", "err_nf_derivative", "err_nan_rho"}

\* 1 / (e * e) * exp(-0.7 / (order - 1)), rounded to T:
\* 0.0672 (order 2), 0.0954 (order 3), 0.1072 (order 4), below 0.1353 for all
rhofac(order) ==
    RoundQ((CASE order = 2 -> 672 [] order = 3 -> 954 [] order = 4 -> 1072
            [] OTHER -> 1353) * Unit, 10000)

\* the compiled routines: one pair per distinct order, shared when the orders agree
jet_f_r(order_r, order_a) == [name |-> "jet_r", order |-> order_r]
jet_f_a(order_r, order_a) ==
    IF order_r = order_a THEN jet_f_r(order_r, order_a)
    ELSE [name |-> "jet_a", order |-> order_a]
update_f_r(order_r, order_a) == [name |-> "estrin_r", order |-> order_r]
update_f_a(order_r, order_a) ==
    IF order_r = order_a THEN update_f_r(order_r, order_a)
    ELSE [name |-> "estrin_a", order |-> order_a]

\* no routine: what a step that returns before the jet call has run
NoFn == [name |-> "none", order |-> 0]

\* one round of the Estrin scheme: pair c_i + c_{i+1} * h, pass an odd tail through
EstrinRound(cf, h) ==
    [j \in 1..((Len(cf) + 1) \div 2) |->
        IF 2 * j > Len(cf) THEN cf[2 * j - 1]
        ELSE Add(cf[2 * j - 1], Mul(cf[2 * j], h))]

RECURSIVE run_estrin(_, _)
run_estrin(cf, h) ==
    IF Len(cf) = 1 THEN cf[1] ELSE run_estrin(EstrinRound(cf, h), Mul(h, h))

\* the routine taylor_add_estrin builds for (nvars, order, batch_size):
\* out[v * batch_size + b] = polynomial of variable v, lane b, at h[b]
taylor_add_estrin(nvars, order, batch_size, jet, h) ==
    [k \in 1..(nvars * batch_size) |->
        LET v == (k - 1) \div batch_size
            b == (k - 1) % batch_size
        IN  run_estrin([o \in 1..(order + 1) |->
                            jet[(o - 1) * nvars * batch_size + v * batch_size + b + 1]],
                       h[b + 1])]


\* the loop over m_state of step_impl: leaves at the first non-finite entry
RECURSIVE max_abs_state_loop(_, _, _)
max_abs_state_loop(st, i, acc) ==
    IF i > Len(st) THEN [nf |-> FALSE, v |-> acc]
    ELSE IF ~isfinite(st[i]) THEN [nf |-> TRUE, v |-> acc]
    ELSE max_abs_state_loop(st, i + 1, max(acc, abs(st[i])))

\* the loop over the derivatives of orders order - 1 and order
RECURSIVE max_abs_diff_loop(_, _, _, _, _, _)
max_abs_diff_loop(jet, order, nvars, i, om1, o) ==
    IF i >= nvars THEN [nf |-> FALSE, om1 |-> om1, o |-> o]
    ELSE LET diff_om1 == jet[(order - 1) * nvars + i + 1]
             diff_o == jet[order * nvars + i + 1]
         IN  IF ~isfinite(diff_om1) \/ ~isfinite(diff_o)
             THEN [nf |-> TRUE, om1 |-> om1, o |-> o]
             ELSE max_abs_diff_loop(jet, order, nvars, i + 1,
                                    max(om1, abs(diff_om1)), max(o, abs(diff_o)))

use_abs_tol_of(rtol, atol, max_abs_state) == Le(Mul(rtol, max_abs_state), atol)

\* the jet buffer after the call of jet function f: order 0 is the copied state,
\* orders 1..f.order are written by f (rows), the rows above keep older contents,
\* which a step never reads
jet_after(st, f, rows, max_order) ==
    st \o rows \o [k \in 1..((max_order - f.order) * Len(st)) |-> 0]

\* what a call of jet function f may write
RECURSIVE JetRows(_)
JetRows(order) ==
    IF order = 0 THEN {<<>>}
    ELSE {lo \o row : lo \in JetRows(order - 1), row \in JetRowVals}

\* a step_impl whose error return comes after the time update
step_err_after_time_update(oc, st, tm, max_delta_t, jf) ==
    [oc |-> oc, h |-> 0, order |-> 0, state |-> st, time |-> Add(tm, max_delta_t),
     max_delta_t |-> max_delta_t, h_ded |-> 0, use_abs_tol |-> FALSE,
     jet_f |-> jf, update_f |-> NoFn]

\* a step_impl whose error return zeroes the state it found unusable
step_err_clearing_state(oc, st, tm, max_delta_t, jf) ==
    [oc |-> oc, h |-> 0, order |-> 0, state |-> [i \in 1..Len(st) |-> 0], time |-> tm,
     max_delta_t |-> max_delta_t, h_ded |-> 0, use_abs_tol |-> FALSE,
     jet_f |-> jf, update_f |-> NoFn]

\* result of a step_impl call that returns early with an error
step_err(oc, st, tm, max_delta_t, jf) ==
    [oc |-> oc, h |-> 0, order |-> 0, state |-> st, time |-> tm,
     max_delta_t |-> max_delta_t, h_ded |-> 0, use_abs_tol |-> FALSE,
     jet_f |-> jf, update_f |-> NoFn]

\* the jet routine and the update routine step_impl calls in a regime
step_jet_f_of(use_abs_tol, order_r, order_a) ==
    IF use_abs_tol THEN jet_f_a(order_r, order_a) ELSE jet_f_r(order_r, order_a)
\* an update routine picked without looking at the regime
step_update_f_always_r(use_abs_tol, order_r, order_a) ==
    update_f_r(order_r, order_a)
step_update_f_of(use_abs_tol, order_r, order_a) ==
    IF use_abs_tol THEN update_f_a(order_r, order_a) ELSE update_f_r(order_r, order_a)

\* an end of step_impl that advances the time by the deduced, unclamped timestep
step_finish_time_unclamped(st, tm, max_delta_t, jet, use_abs_tol, order, rho_o, rho_om1, rf, jf, uf) ==
    LET abs_max_delta_t == abs(max_delta_t)
        backwards == Lt(max_delta_t, 0)
        rho_m == min(rho_o, rho_om1)
        h0 == Mul(rho_m, rf)
        clamp == Gt(h0, abs_max_delta_t)
        h1 == IF clamp THEN abs_max_delta_t ELSE h0
        h == IF backwards THEN Neg(h1) ELSE h1
    IN  [oc |-> IF clamp THEN "time_limit" ELSE "success",
         h |-> h, order |-> order,
         state |-> taylor_add_estrin(Len(st), uf.order, 1, jet, <<h>>),
         time |-> Add(tm, IF backwards THEN Neg(h0) ELSE h0),
         max_delta_t |-> max_delta_t, h_ded |-> h0, use_abs_tol |-> use_abs_tol,
         jet_f |-> jf, update_f |-> uf]

\* an end of step_impl that clamps with >= in the place of >
step_finish_clamp_ge(st, tm, max_delta_t, jet, use_abs_tol, order, rho_o, rho_om1, rf, jf, uf) ==
    LET abs_max_delta_t == abs(max_delta_t)
        backwards == Lt(max_delta_t, 0)
        rho_m == min(rho_o, rho_om1)
        h0 == Mul(rho_m, rf)
        clamp == Ge(h0, abs_max_delta_t)
        h1 == IF clamp THEN abs_max_delta_t ELSE h0
        h == IF backwards THEN Neg(h1) ELSE h1
    IN  [oc |-> IF clamp THEN "time_limit" ELSE "success",
         h |-> h, order |-> order,
         state |-> taylor_add_estrin(Len(st), uf.order, 1, jet, <<h>>),
         time |-> Add(tm, h),
         max_delta_t |-> max_delta_t, h_ded |-> h0, use_abs_tol |-> use_abs_tol,
         jet_f |-> jf, update_f |-> uf]

\* the end of step_impl: clamp, sign, state update, time update
step_finish(st, tm, max_delta_t, jet, use_abs_tol, order, rho_o, rho_om1, rf, jf, uf) ==
    LET abs_max_delta_t == abs(max_delta_t)
        backwards == Lt(max_delta_t, 0)
        rho_m == min(rho_o, rho_om1)
        h0 == Mul(rho_m, rf)
        clamp == Gt(h0, abs_max_delta_t)
        h1 == IF clamp THEN abs_max_delta_t ELSE h0
        h == IF backwards THEN Neg(h1) ELSE h1
    IN  [oc |-> IF clamp THEN "time_limit" ELSE "success",
         h |-> h, order |-> order,
         state |-> taylor_add_estrin(Len(st), uf.order, 1, jet, <<h>>),
         time |-> Add(tm, h),
         max_delta_t |-> max_delta_t, h_ded |-> h0, use_abs_tol |-> use_abs_tol,
         jet_f |-> jf, update_f |-> uf]

\* taylor_adaptive_impl<T>::step_impl(max_delta_t), rows being what the jet
\* function writes when it is called
step_impl(st, tm, rtol, atol, order_r, order_a, max_delta_t, rows) ==
    LET nvars == Len(st)
        n == max_abs_state_loop(st, 1, 0)
        max_abs_state == n.v
        use_abs_tol == use_abs_tol_of(rtol, atol, max_abs_state)
        order == IF use_abs_tol THEN order_a ELSE order_r
        jf == step_jet_f_of(use_abs_tol, order_r, order_a)
        uf == step_update_f_of(use_abs_tol, order_r, order_a)
        max_order == IF order_r > order_a THEN order_r ELSE order_a
        jet == jet_after(st, jf, rows, max_order)
        d == max_abs_diff_loop(jet, order, nvars, 0, 0, 0)
        rho_om1 == IF use_abs_tol THEN pow_inv_order(Div(One, d.om1), order - 1)
                   ELSE pow_inv_order(Div(max_abs_state, d.om1), order - 1)
        rho_o == IF use_abs_tol THEN pow_inv_order(Div(One, d.o), order)
                 ELSE pow_inv_order(Div(max_abs_state, d.o), order)
    IN  IF n.nf THEN step_err("err_nf_state", st, tm, max_delta_t, NoFn)
        ELSE IF d.nf THEN step_err("err_nf_derivative", st, tm, max_delta_t, jf)
        ELSE IF isnan(rho_om1) \/ isnan(rho_o)
             THEN step_err("err_nan_rho", st, tm, max_delta_t, jf)
        ELSE step_finish(st, tm, max_delta_t, jet, use_abs_tol, order, rho_o, rho_om1,
                         rhofac(order), jf, uf)

\* the jet function a step_impl call on state st runs, if it gets that far
step_jet_f(st, rtol, atol, order_r, order_a) ==
    LET n == max_abs_state_loop(st, 1, 0)
    IN  IF n.nf THEN NoFn
        ELSE step_jet_f_of(use_abs_tol_of(rtol, atol, n.v), order_r, order_a)

\* step_impl on the integrator's own fields
StepResults(max_delta_t) ==
    {step_impl(m_state, m_time, m_rtol, m_atol, m_order_r, m_order_a, max_delta_t, rows) :
        rows \in JetRows(step_jet_f(m_state, m_rtol, m_atol, m_order_r, m_order_a).order)}


\* ------------------------------------------------------------------------
\* The operations of the scalar integrator
\* ------------------------------------------------------------------------

RetBase == [op |-> "ctor", exc |-> "none", oc |-> "none", h |-> 0, order |-> 0,
            min_h |-> 0, max_h |-> 0, min_order |-> 0, max_order |-> 0, n_steps |-> 0]

LastOf(r, seq) ==
    [seq |-> seq, oc |-> r.oc, h |-> r.h, order |-> r.order,
     max_delta_t |-> r.max_delta_t, h_ded |-> r.h_ded, use_abs_tol |-> r.use_abs_tol,
     jet_f |-> r.jet_f, update_f |-> r.update_f]

Throw(op, exc) ==
    /\ ret' = [RetBase EXCEPT !.op = op, !.exc = exc]
    /\ hist' = <<>>
    /\ UNCHANGED <<m_state, m_time, m_rtol, m_atol, m_order_r, m_order_a, pc, prop, last,
                   nf_seen>>

\* the count of err_nf_state returns in a row, as far as it matters: 0, 1, 2
NfSeenAfter(r) == IF r.oc = "err_nf_state" THEN (IF nf_seen = 0 THEN 1 ELSE 2) ELSE nf_seen

HistOf(r) == [oc |-> r.oc, h |-> r.h, order |-> r.order, time |-> r.time]

PropIdle == [op |-> "none", t |-> 0, max_steps |-> 0, t0 |-> 0, fwd |-> TRUE,
             step_counter |-> 0,
             min_h |-> PInf, max_h |-> 0, min_order |-> uint32_max, max_order |-> 0]

\* the constructor: tolerances finite and positive, state and time finite
Init ==
    /\ m_state \in InitStates
    /\ m_time = 0
    /\ \E tol \in TolPairs : m_rtol = tol[1] /\ m_atol = tol[2]
    /\ m_order_r = taylor_order(m_rtol)
    /\ m_order_a = taylor_order(m_atol)
    /\ pc = "idle"
    /\ prop = PropIdle
    /\ last = LastOf(step_err("none", m_state, m_time, 0, NoFn), 0)
    /\ hist = <<>>
    /\ ret = RetBase
    /\ calls = 0
    /\ nf_seen = 0
    /\ sys = <<>>
    /\ dec = NoDec
    /\ m_states = <<>>
    /\ m_times = <<>>
    /\ res = <<>>
    /\ m_h = <<>>

\* one call of step_impl from step(), step_backward() or step(max_delta_t)
DoStep(op, max_delta_t) ==
    \E r \in StepResults(max_delta_t) :
        /\ m_state' = r.state
        /\ m_time' = r.time
        /\ last' = LastOf(r, 1 - last.seq)
        /\ ret' = [RetBase EXCEPT !.op = op, !.oc = r.oc, !.h = r.h, !.order = r.order]
        /\ hist' = <<HistOf(r)>>
        /\ nf_seen' = NfSeenAfter(r)
        /\ UNCHANGED <<m_rtol, m_atol, m_order_r, m_order_a, pc, prop>>

step ==
    /\ pc = "idle"
    /\ UNCHANGED bvars
    /\ calls < MaxCalls
    /\ calls' = calls + 1
    /\ DoStep("step", PInf)

step_backward ==
    /\ pc = "idle"
    /\ UNCHANGED bvars
    /\ calls < MaxCalls
    /\ calls' = calls + 1
    /\ DoStep("step_backward", MInf)

step_max_delta_t ==
    /\ pc = "idle"
    /\ UNCHANGED bvars
    /\ calls < MaxCalls
    /\ calls' = calls + 1
    /\ \E max_delta_t \in StepArgs :
          IF isnan(max_delta_t) THEN Throw("step_max_delta_t", "invalid_argument")
          ELSE DoStep("step_max_delta_t", max_delta_t)

set_time ==
    /\ pc = "idle"
    /\ UNCHANGED bvars
    /\ calls < MaxCalls
    /\ calls' = calls + 1
    /\ \E t \in SetTimeArgs :
          IF ~isfinite(t) THEN Throw("set_time", "invalid_argument")
          ELSE /\ m_time' = t
               /\ ret' = [RetBase EXCEPT !.op = "set_time"]
               /\ hist' = <<>>
               /\ UNCHANGED <<m_state, m_rtol, m_atol, m_order_r, m_order_a, pc, prop, last,
                              nf_seen>>

\* a set_state that checks the size of its argument only
set_state_impl_size_only(state, is_self) ==
    IF is_self
    THEN /\ ret' = [RetBase EXCEPT !.op = "set_state_self"]
         /\ hist' = <<>>
         /\ UNCHANGED <<m_state, m_time, m_rtol, m_atol, m_order_r, m_order_a, pc, prop, last,
                        nf_seen>>
    ELSE IF Len(state) # Len(m_state) THEN Throw("set_state", "invalid_argument")
    ELSE /\ m_state' = state
         /\ ret' = [RetBase EXCEPT !.op = "set_state"]
         /\ hist' = <<>>
         /\ nf_seen' = 0
         /\ UNCHANGED <<m_time, m_rtol, m_atol, m_order_r, m_order_a, pc, prop, last>>

\* set_state(state); is_self: the argument is the integrator's own vector
set_state_impl(state, is_self) ==
    IF is_self
    THEN /\ ret' = [RetBase EXCEPT !.op = "set_state_self"]
         /\ hist' = <<>>
         /\ UNCHANGED <<m_state, m_time, m_rtol, m_atol, m_order_r, m_order_a, pc, prop, last,
                        nf_seen>>
    ELSE IF Len(state) # Len(m_state) THEN Throw("set_state", "invalid_argument")
    ELSE IF \E i \in 1..Len(state) : ~isfinite(state[i])
         THEN Throw("set_state", "invalid_argument")
    ELSE /\ m_state' = state
         /\ ret' = [RetBase EXCEPT !.op = "set_state"]
         /\ hist' = <<>>
         /\ nf_seen' = 0
         /\ UNCHANGED <<m_time, m_rtol, m_atol, m_order_r, m_order_a, pc, prop, last>>

set_state ==
    /\ pc = "idle"
    /\ UNCHANGED bvars
    /\ calls < MaxCalls
    /\ calls' = calls + 1
    /\ \/ \E state \in StateArgs : set_state_impl(state, FALSE)
       \/ set_state_impl(m_state, TRUE)


\* the tuple propagate_until returns
PropRet(op, oc, min_h, max_h, min_order, max_order, step_counter) ==
    [RetBase EXCEPT !.op = op, !.oc = oc, !.min_h = min_h, !.max_h = max_h,
                    !.min_order = min_order, !.max_order = max_order,
                    !.n_steps = step_counter]

IMin(a, b) == IF b < a THEN b ELSE a
IMax(a, b) == IF a < b THEN b ELSE a

\* the locals a finished propagate_until call leaves behind: its arguments
PropDone(p) == [PropIdle EXCEPT !.op = p.op, !.t = p.t, !.max_steps = p.max_steps,
                                !.t0 = p.t0, !.fwd = p.fwd]

\* propagate_until(t, max_steps) up to the entry of one of its two loops
propagate_until_impl(op, t, max_steps) ==
    IF ~isfinite(t) THEN Throw(op, "invalid_argument")
    ELSE IF t = m_time
    THEN /\ ret' = PropRet(op, "time_limit", PInf, 0, uint32_max, 0, 0)
         /\ hist' = <<>>
         /\ prop' = [PropIdle EXCEPT !.op = op, !.t = t, !.max_steps = max_steps,
                                     !.t0 = m_time]
         /\ UNCHANGED <<m_state, m_time, m_rtol, m_atol, m_order_r, m_order_a, pc, last,
                        nf_seen>>
    ELSE IF \/ (Gt(t, m_time) /\ ~isfinite(Sub(t, m_time)))
            \/ (Lt(t, m_time) /\ ~isfinite(Sub(m_time, t)))
    THEN Throw(op, "overflow_error")
    ELSE /\ pc' = IF Gt(t, m_time) THEN "fwd" ELSE "bwd"
         /\ prop' = [PropIdle EXCEPT !.op = op, !.t = t, !.max_steps = max_steps,
                                     !.t0 = m_time, !.fwd = Gt(t, m_time)]
         /\ hist' = <<>>
         /\ UNCHANGED <<m_state, m_time, m_rtol, m_atol, m_order_r, m_order_a, last, ret,
                        nf_seen>>

propagate_until ==
    /\ pc = "idle"
    /\ UNCHANGED bvars
    /\ calls < MaxCalls
    /\ calls' = calls + 1
    /\ \E t \in TimeArgs, max_steps \in MaxStepsArgs :
          propagate_until_impl("propagate_until", t, max_steps)

propagate_for ==
    /\ pc = "idle"
    /\ UNCHANGED bvars
    /\ calls < MaxCalls
    /\ calls' = calls + 1
    /\ \E delta_t \in DeltaArgs, max_steps \in MaxStepsArgs :
          propagate_until_impl("propagate_for", Add(m_time, delta_t), max_steps)

\* an error return that counts the failed step
prop_on_error_counting(p, r) ==
    [done |-> TRUE, p |-> p,
     ret |-> PropRet(p.op, r.oc, p.min_h, p.max_h, IMin(p.min_order, r.order),
                     IMax(p.max_order, r.order), p.step_counter + 1)]

\* the return on a failed step: the statistics of the steps completed before it
prop_on_error(p, r) ==
    [done |-> TRUE, p |-> p,
     ret |-> PropRet(p.op, r.oc, p.min_h, p.max_h, p.min_order, p.max_order, p.step_counter)]

\* an iteration that checks the step limit before the time limit
prop_on_step_limit_first(p, r, tm) ==
    LET step_counter == p.step_counter + 1
        min_order == IMin(p.min_order, r.order)
        max_order == IMax(p.max_order, r.order)
        ah == IF p.fwd THEN r.h ELSE Neg(r.h)
        min_h == min(p.min_h, ah)
        max_h == max(p.max_h, ah)
        p2 == [p EXCEPT !.step_counter = step_counter, !.min_order = min_order,
                        !.max_order = max_order, !.min_h = min_h, !.max_h = max_h]
    IN  IF p.max_steps # 0 /\ step_counter = p.max_steps
        THEN [done |-> TRUE, p |-> p2,
              ret |-> PropRet(p.op, "step_limit", min_h, max_h, min_order, max_order,
                              step_counter)]
        ELSE IF (IF p.fwd THEN Ge(tm, p.t) ELSE Le(tm, p.t))
        THEN [done |-> TRUE, p |-> p2,
              ret |-> PropRet(p.op, "time_limit", p.min_h, p.max_h, min_order, max_order,
                              step_counter)]
        ELSE [done |-> FALSE, p |-> p2, ret |-> RetBase]

\* an iteration that updates min_h/max_h before it checks the time limit
prop_on_step_h_first(p, r, tm) ==
    LET step_counter == p.step_counter + 1
        min_order == IMin(p.min_order, r.order)
        max_order == IMax(p.max_order, r.order)
        ah == IF p.fwd THEN r.h ELSE Neg(r.h)
        min_h == min(p.min_h, ah)
        max_h == max(p.max_h, ah)
        p2 == [p EXCEPT !.step_counter = step_counter, !.min_order = min_order,
                        !.max_order = max_order, !.min_h = min_h, !.max_h = max_h]
    IN  IF (IF p.fwd THEN Ge(tm, p.t) ELSE Le(tm, p.t))
        THEN [done |-> TRUE, p |-> p2,
              ret |-> PropRet(p.op, "time_limit", min_h, max_h, min_order, max_order,
                              step_counter)]
        ELSE IF p.max_steps # 0 /\ step_counter = p.max_steps
        THEN [done |-> TRUE, p |-> p2,
              ret |-> PropRet(p.op, "step_limit", min_h, max_h, min_order, max_order,
                              step_counter)]
        ELSE [done |-> FALSE, p |-> p2, ret |-> RetBase]

\* the rest of an iteration after a step that did not fail: count the step, update
\* the orders, break when the time limit is reached, else update min_h/max_h and
\* check the step limit
prop_on_step(p, r, tm) ==
    LET step_counter == p.step_counter + 1
        min_order == IMin(p.min_order, r.order)
        max_order == IMax(p.max_order, r.order)
        ah == IF p.fwd THEN r.h ELSE Neg(r.h)
        min_h == min(p.min_h, ah)
        max_h == max(p.max_h, ah)
        p1 == [p EXCEPT !.step_counter = step_counter, !.min_order = min_order,
                        !.max_order = max_order]
        p2 == [p1 EXCEPT !.min_h = min_h, !.max_h = max_h]
    IN  IF (IF p.fwd THEN Ge(tm, p.t) ELSE Le(tm, p.t))
        THEN [done |-> TRUE, p |-> p1,
              ret |-> PropRet(p.op, "time_limit", p.min_h, p.max_h, min_order, max_order,
                              step_counter)]
        ELSE IF p.max_steps # 0 /\ step_counter = p.max_steps
        THEN [done |-> TRUE, p |-> p2,
              ret |-> PropRet(p.op, "step_limit", min_h, max_h, min_order, max_order,
                              step_counter)]
        ELSE [done |-> FALSE, p |-> p2, ret |-> RetBase]

\* a loop that hands the target time itself to step_impl
prop_max_delta_t_absolute(p, tm) == p.t

\* the argument of the loops' step_impl call: the time left to the target
prop_max_delta_t(p, tm) == Sub(p.t, tm)

\* one iteration of a loop of propagate_until
propagate_loop ==
    \E r \in StepResults(prop_max_delta_t(prop, m_time)) :
        LET it == IF r.oc # "success" /\ r.oc # "time_limit"
                  THEN prop_on_error(prop, r)
                  ELSE prop_on_step(prop, r, r.time)
        IN  /\ m_state' = r.state
            /\ m_time' = r.time
            /\ last' = LastOf(r, 1 - last.seq)
            /\ hist' = Append(hist, HistOf(r))
            /\ nf_seen' = NfSeenAfter(r)
            /\ UNCHANGED <<m_rtol, m_atol, m_order_r, m_order_a, calls>>
            /\ IF it.done
               THEN /\ ret' = it.ret
                    /\ pc' = "idle"
                    /\ prop' = PropDone(prop)
               ELSE /\ prop' = it.p
                    /\ UNCHANGED <<pc, ret>>

\* the loop of the branch t > m_time
propagate_forward ==
    /\ pc = "fwd"
    /\ prop.step_counter < MaxLoop
    /\ UNCHANGED bvars
    /\ propagate_loop

\* the loop of the branch t < m_time
propagate_backward ==
    /\ pc = "bwd"
    /\ prop.step_counter < MaxLoop
    /\ UNCHANGED bvars
    /\ propagate_loop

\* the stepping interface: single steps, set_time, set_state
Next ==
    \/ step
    \/ step_backward
    \/ step_max_delta_t
    \/ set_time
    \/ set_state

Spec == Init /\ [][Next]_svars

\* the propagation interface: propagate_until, propagate_for, set_time
NextProp ==
    \/ propagate_until
    \/ propagate_for
    \/ propagate_forward
    \/ propagate_backward
    \/ set_time

SpecProp == Init /\ [][NextProp]_svars

\* ------------------------------------------------------------------------
\* The batch integrator
\* ------------------------------------------------------------------------

\* number of batch elements
BatchSize == 2

Lanes == 1..BatchSize

\* the vector of nvars * BatchSize entries whose batch element b is lane[b]
Interleave(lane) ==
    [k \in 1..(NVars * BatchSize) |->
        lane[((k - 1) % BatchSize) + 1][((k - 1) \div BatchSize) + 1]]

\* what a batch jet function may write for one batch element at one order
BatchLaneRowVals ==
    {[i \in 1..NVars |-> IF i = 1 THEN One ELSE 0],
     [i \in 1..NVars |-> IF i = NVars THEN PInf ELSE 0]}

BatchJetRowVals == {Interleave(lane) : lane \in [Lanes -> BatchLaneRowVals]}

BatchInitStates == {Interleave(lane) : lane \in [Lanes -> InitStates]}

BatchStateArgs ==
    {Interleave([b \in Lanes |-> [i \in 1..NVars |-> IF i = NVars THEN One ELSE 0]]),
     Interleave([b \in Lanes |-> [i \in 1..NVars |-> IF b = 1 THEN One ELSE PInf]]),
     <<One>>}

BatchTimeArgs ==
    {[b \in Lanes |-> IF b = 1 THEN -1 ELSE 0],
     [b \in Lanes |-> IF b = 1 THEN 0 ELSE PInf],
     <<0>>}

\* what a call of a batch jet function may write
RECURSIVE BatchJetRows(_)
BatchJetRows(order) ==
    IF order = 0 THEN {<<>>}
    ELSE {lo \o row : lo \in BatchJetRows(order - 1), row \in BatchJetRowVals}

\* the loop computing the norm infinity of each state vector, k = i * batch_size + batch_idx
RECURSIVE batch_max_abs_states_loop(_, _, _, _, _)
batch_max_abs_states_loop(states, batch_size, k, max_abs_states, oc) ==
    IF k >= Len(states) THEN [max_abs_states |-> max_abs_states, oc |-> oc]
    ELSE LET batch_idx == (k % batch_size) + 1
         IN  IF isfinite(states[k + 1])
             THEN batch_max_abs_states_loop(
                      states, batch_size, k + 1,
                      [max_abs_states EXCEPT
                          ![batch_idx] = max(max_abs_states[batch_idx], abs(states[k + 1]))],
                      oc)
             ELSE batch_max_abs_states_loop(
                      states, batch_size, k + 1, max_abs_states,
                      [oc EXCEPT ![batch_idx] = "err_nf_state"])

\* the loop choosing the order: the maximum over the batch elements not yet failed
RECURSIVE batch_max_order_loop(_, _, _, _, _, _)
batch_max_order_loop(oc, use_abs_tol, order_r, order_a, batch_idx, max_order) ==
    IF batch_idx > Len(oc) THEN max_order
    ELSE IF oc[batch_idx] # "success"
    THEN batch_max_order_loop(oc, use_abs_tol, order_r, order_a, batch_idx + 1, max_order)
    ELSE LET cur_order == IF use_abs_tol[batch_idx] THEN order_a ELSE order_r
         IN  batch_max_order_loop(oc, use_abs_tol, order_r, order_a, batch_idx + 1,
                                  IMax(max_order, cur_order))

\* the loop over the derivatives of orders cur_order - 1 and cur_order
RECURSIVE batch_max_abs_diff_loop(_, _, _, _, _, _, _, _)
batch_max_abs_diff_loop(jet, nvars, batch_size, k, cur_order, om1, o, oc) ==
    IF k >= nvars * batch_size THEN [om1 |-> om1, o |-> o, oc |-> oc]
    ELSE LET batch_idx == (k % batch_size) + 1
         IN  IF oc[batch_idx] # "success"
             THEN batch_max_abs_diff_loop(jet, nvars, batch_size, k + 1, cur_order,
                                          om1, o, oc)
             ELSE LET diff_om1 == jet[(cur_order[batch_idx] - 1) * nvars * batch_size + k + 1]
                      diff_o == jet[cur_order[batch_idx] * nvars * batch_size + k + 1]
                  IN  IF ~isfinite(diff_om1) \/ ~isfinite(diff_o)
                      THEN batch_max_abs_diff_loop(
                               jet, nvars, batch_size, k + 1, cur_order, om1, o,
                               [oc EXCEPT ![batch_idx] = "err_nf_derivative"])
                      ELSE batch_max_abs_diff_loop(
                               jet, nvars, batch_size, k + 1, cur_order,
                               [om1 EXCEPT ![batch_idx] = max(om1[batch_idx], abs(diff_om1))],
                               [o EXCEPT ![batch_idx] = max(o[batch_idx], abs(diff_o))],
                               oc)

\* one iteration of the loop estimating rho and computing the timestep
batch_h(oc, use_abs_tol, cur_order, max_abs_state, om1, o, max_delta_t) ==
    IF oc # "success" THEN [oc |-> oc, h |-> 0]
    ELSE LET rho_om1 == IF use_abs_tol THEN pow_inv_order(Div(One, om1), cur_order - 1)
                        ELSE pow_inv_order(Div(max_abs_state, om1), cur_order - 1)
             rho_o == IF use_abs_tol THEN pow_inv_order(Div(One, o), cur_order)
                      ELSE pow_inv_order(Div(max_abs_state, o), cur_order)
             rho_m == min(rho_o, rho_om1)
             h0 == Mul(rho_m, rhofac(cur_order))
             abs_delta_t == abs(max_delta_t)
             clamp == Gt(h0, abs_delta_t)
             h1 == IF clamp THEN abs_delta_t ELSE h0
         IN  IF isnan(rho_om1) \/ isnan(rho_o) THEN [oc |-> "err_nan_rho", h |-> 0]
             ELSE [oc |-> IF clamp THEN "time_limit" ELSE "success",
                   h |-> IF Lt(max_delta_t, 0) THEN Neg(h1) ELSE h1]

\* the state of step_impl after its first two loops
batch_orders(states, batch_size, rtol, atol, order_r, order_a) ==
    LET n == batch_max_abs_states_loop(states, batch_size, 0,
                                       [b \in 1..batch_size |-> 0],
                                       [b \in 1..batch_size |-> "success"])
        use_abs_tol == [b \in 1..batch_size |->
                           n.oc[b] = "success" /\ Le(Mul(rtol, n.max_abs_states[b]), atol)]
    IN  [max_abs_states |-> n.max_abs_states, oc |-> n.oc, use_abs_tol |-> use_abs_tol,
         max_order |-> batch_max_order_loop(n.oc, use_abs_tol, order_r, order_a, 1, 0)]

\* the end of step_impl: the update of the states at the max order, then the loop
\* updating the times and storing timestep and order in res; oob tells whether the
\* loop wrote to m_times[batch_idx] past the end of m_times
batch_step_finish(states, times, nvars, batch_size, max_order, cur_order, jet, hs, h) ==
    [res |-> [b \in 1..batch_size |->
                 IF hs[b].oc # "success"
                 THEN [oc |-> hs[b].oc, h |-> 0, order |-> 0]
                 ELSE [oc |-> "success", h |-> h[b], order |-> cur_order[b]]],
     states |-> taylor_add_estrin(nvars, max_order, batch_size, jet, h),
     times |-> [b \in 1..Len(times) |->
                   IF b > batch_size \/ hs[b].oc # "success" THEN times[b]
                   ELSE Add(times[b], h[b])],
     max_order |-> max_order, m_h |-> h,
     oob |-> \E b \in 1..batch_size : hs[b].oc = "success" /\ b > Len(times)]

\* step_impl from the loop estimating rho on
batch_step_rho(states, times, nvars, batch_size, max_delta_ts, n, cur_order, jet, d) ==
    LET hs == [b \in 1..batch_size |->
                  batch_h(d.oc[b], n.use_abs_tol[b], cur_order[b], n.max_abs_states[b],
                          d.om1[b], d.o[b], max_delta_ts[b])]
    IN  batch_step_finish(states, times, nvars, batch_size, n.max_order, cur_order, jet,
                          hs, [b \in 1..batch_size |-> hs[b].h])

\* step_impl from the early exit on: copy of the states to order 0 of the jet,
\* jet function at the max order, loop over the derivatives
batch_step_jet(states, times, nvars, batch_size, order_r, order_a, max_delta_ts, rows, n, cur_order) ==
    IF n.max_order = 0
    THEN [res |-> [b \in 1..batch_size |-> [oc |-> n.oc[b], h |-> 0, order |-> 0]],
          states |-> states, times |-> times, max_order |-> 0, m_h |-> <<>>, oob |-> FALSE]
    ELSE batch_step_rho(states, times, nvars, batch_size, max_delta_ts, n, cur_order,
                        states \o rows,
                        batch_max_abs_diff_loop(states \o rows, nvars, batch_size, 0,
                                                cur_order,
                                                [b \in 1..batch_size |-> 0],
                                                [b \in 1..batch_size |-> 0], n.oc))

\* a step_impl deducing the timestep of every batch element at the max order
batch_step_impl_all_max_order(states, times, order_r, order_a, max_delta_ts, rows, n) ==
    batch_step_jet(states, times, Len(states) \div BatchSize, BatchSize, order_r, order_a,
                   max_delta_ts, rows, n, [b \in 1..BatchSize |-> n.max_order])

\* taylor_adaptive_batch_impl<T>::step_impl(res, max_delta_ts), n being the result of
\* its first two loops and rows what the jet function writes when it is called
batch_step_impl(states, times, order_r, order_a, max_delta_ts, rows, n) ==
    batch_step_jet(states, times, Len(states) \div BatchSize, BatchSize, order_r, order_a,
                   max_delta_ts, rows, n,
                   [b \in 1..BatchSize |-> IF n.use_abs_tol[b] THEN order_a ELSE order_r])

\* step_impl on the batch integrator's own fields
BatchStepResultsOf(max_delta_ts, n) ==
    {batch_step_impl(m_states, m_times, m_order_r, m_order_a, max_delta_ts, rows, n) :
        rows \in BatchJetRows(n.max_order)}

BatchStepResults(max_delta_ts) ==
    BatchStepResultsOf(max_delta_ts,
                       batch_orders(m_states, BatchSize, m_rtol, m_atol,
                                    m_order_r, m_order_a))

\* construction of a batch integrator: finite states, times all equal
InitBatch ==
    /\ m_states \in BatchInitStates
    /\ m_times = [b \in Lanes |-> 0]
    /\ res = <<>>
    /\ m_h = [b \in Lanes |-> 0]
    /\ \E tol \in TolPairs : m_rtol = tol[1] /\ m_atol = tol[2]
    /\ m_order_r = taylor_order(m_rtol)
    /\ m_order_a = taylor_order(m_atol)
    /\ ret = RetBase
    /\ calls = 0
    /\ m_state = <<>>
    /\ m_time = 0
    /\ pc = "idle"
    /\ prop = PropIdle
    /\ last = LastOf(step_err("none", <<>>, 0, 0, NoFn), 0)
    /\ hist = <<>>
    /\ nf_seen = 0
    /\ sys = <<>>
    /\ dec = NoDec

BatchDoStep(op, max_delta_ts) ==
    \E r \in BatchStepResults(max_delta_ts) :
        /\ m_states' = r.states
        /\ m_times' = r.times
        /\ res' = r.res
        /\ m_h' = IF r.max_order = 0 THEN m_h ELSE r.m_h
        /\ \E exc \in (IF r.oob THEN {"none", "crash"} ELSE {"none"}) :
              ret' = [RetBase EXCEPT !.op = op, !.exc = exc]
        /\ UNCHANGED <<m_rtol, m_atol, m_order_r, m_order_a>>

\* taylor_adaptive_batch_impl<T>::step(res)
batch_step ==
    /\ calls < MaxCalls
    /\ calls' = calls + 1
    /\ UNCHANGED scalar_vars
    /\ BatchDoStep("batch_step", [b \in Lanes |-> PInf])

\* taylor_adaptive_batch_impl<T>::step_backward(res)
batch_step_backward ==
    /\ calls < MaxCalls
    /\ calls' = calls + 1
    /\ UNCHANGED scalar_vars
    /\ BatchDoStep("batch_step_backward", [b \in Lanes |-> MInf])

\* a setter of the batch integrator: the new vector v replaces the field old
batch_set(op, v, old, is_self) ==
    IF is_self THEN [exc |-> "none", v |-> old]
    ELSE IF Len(v) # Len(old) THEN [exc |-> "invalid_argument", v |-> old]
    ELSE IF \E k \in 1..Len(v) : ~isfinite(v[k]) THEN [exc |-> "invalid_argument", v |-> old]
    ELSE [exc |-> "none", v |-> v]

\* taylor_adaptive_batch_impl<T>::set_times(t)
set_times ==
    /\ calls < MaxCalls
    /\ calls' = calls + 1
    /\ UNCHANGED scalar_vars
    /\ \E a \in {[t |-> t, self |-> FALSE] : t \in BatchTimeArgs}
                   \cup {[t |-> m_times, self |-> TRUE]} :
          LET r == batch_set("set_times", a.t, m_times, a.self)
          IN  /\ m_times' = r.v
              /\ ret' = [RetBase EXCEPT !.op = "set_times", !.exc = r.exc]
    /\ UNCHANGED <<m_states, res, m_h, m_rtol, m_atol, m_order_r, m_order_a>>

\* taylor_adaptive_batch_impl<T>::set_states(states)
set_states ==
    /\ calls < MaxCalls
    /\ calls' = calls + 1
    /\ UNCHANGED scalar_vars
    /\ \E a \in {[states |-> st, self |-> FALSE] : st \in BatchStateArgs}
                   \cup {[states |-> m_states, self |-> TRUE]} :
          LET r == batch_set("set_states", a.states, m_states, a.self)
          IN  /\ m_states' = r.v
              /\ ret' = [RetBase EXCEPT !.op = "set_states", !.exc = r.exc]
    /\ UNCHANGED <<m_times, res, m_h, m_rtol, m_atol, m_order_r, m_order_a>>

\* the interface of the batch integrator
NextBatch ==
    \/ batch_step
    \/ batch_step_backward
    \/ set_times
    \/ set_states

SpecBatch == InitBatch /\ [][NextBatch]_svars

\* a scalar or a batch integrator, with the interface of the one that was constructed
InitSetters == Init \/ InitBatch

NextSetters ==
    \/ m_states = <<>> /\ Next
    \/ m_states # <<>> /\ NextBatch

SpecSetters == InitSetters /\ [][NextSetters]_svars

\* arguments of the constructor of a batch integrator for a system of NVars equations
BatchCtorStates == BatchInitStates \cup {<<One>>, [k \in 1..(NVars * BatchSize) |-> PInf]}

BatchCtorTimes ==
    {[b \in 1..BatchSize |-> 0], [b \in 1..BatchSize |-> PInf],
     [b \in 1..(BatchSize - 1) |-> 0], [b \in 1..(BatchSize + 1) |-> 0]}

\* the exception of the constructor's checks of its arguments
batch_ctor(n_eq, states, times, rtol, atol, batch_size) ==
    IF batch_size = 0 THEN "invalid_argument"
    ELSE IF \E k \in 1..Len(states) : ~isfinite(states[k]) THEN "invalid_argument"
    ELSE IF Len(states) % batch_size # 0 THEN "invalid_argument"
    ELSE IF Len(states) \div batch_size # n_eq THEN "invalid_argument"
    ELSE IF \E k \in 1..Len(times) : ~isfinite(times[k]) THEN "invalid_argument"
    ELSE IF ~isfinite(rtol) \/ Le(rtol, 0) THEN "invalid_argument"
    ELSE IF ~isfinite(atol) \/ Le(atol, 0) THEN "invalid_argument"
    ELSE "none"

\* construction of a batch integrator that does not throw
InitBatchCtor ==
    /\ \E tol \in TolPairs : m_rtol = tol[1] /\ m_atol = tol[2]
    /\ \E states \in BatchCtorStates, times \in BatchCtorTimes :
          /\ batch_ctor(NVars, states, times, m_rtol, m_atol, BatchSize) = "none"
          /\ m_states = states
          /\ m_times = times
    /\ res = <<>>
    /\ m_h = [b \in Lanes |-> 0]
    /\ m_order_r = taylor_order(m_rtol)
    /\ m_order_a = taylor_order(m_atol)
    /\ ret = RetBase
    /\ calls = 0
    /\ m_state = <<>>
    /\ m_time = 0
    /\ pc = "idle"
    /\ prop = PropIdle
    /\ last = LastOf(step_err("none", <<>>, 0, 0, NoFn), 0)
    /\ hist = <<>>
    /\ nf_seen = 0
    /\ sys = <<>>
    /\ dec = NoDec

\* the batch integrator from construction on
SpecBatchCtor == InitBatchCtor /\ [][NextBatch]_svars

\* arguments max_delta_ts of a direct step_impl call
BatchDeltaArgs ==
    {[b \in Lanes |-> IF b = 1 THEN 1 ELSE -One],
     [b \in Lanes |-> IF b = 1 THEN PInf ELSE 1]}

\* taylor_adaptive_batch_impl<T>::step_impl(res, max_delta_ts) called with its
\* precondition (no NaN, batch_size entries) met
batch_step_max_delta_ts ==
    /\ calls < MaxCalls
    /\ calls' = calls + 1
    /\ UNCHANGED scalar_vars
    /\ \E max_delta_ts \in BatchDeltaArgs : BatchDoStep("batch_step_impl", max_delta_ts)

\* step_impl of the batch integrator over all its arguments
NextBatchImpl ==
    \/ batch_step_max_delta_ts
    \/ set_times
    \/ set_states

SpecBatchImpl == InitBatch /\ [][NextBatchImpl]_svars

\* ------------------------------------------------------------------------
\* Expressions and the Taylor decomposition
\* ------------------------------------------------------------------------

\* bound on the index i of the names u_i that are looked up
MaxDecLen == 16

\* the callbacks of a function that operator== looks at
Callbacks ==
    {"diff_f", "eval_dbl_f", "eval_batch_dbl_f", "eval_num_dbl_f", "deval_num_dbl_f",
     "taylor_decompose_f", "taylor_init_dbl_f", "taylor_init_ldbl_f", "taylor_diff_dbl_f",
     "taylor_diff_ldbl_f"}

\* the members of a function besides display name and arguments; cb[c] names the
\* callable stored in callback c, "" being an empty std::function
NoDesc ==
    [dbl_name |-> "", ldbl_name |-> "", attributes |-> <<>>, ty |-> "internal",
     disable_verify |-> FALSE, cb |-> [c \in Callbacks |-> ""]]

\* function::function(std::vector<expression>): the default Taylor decomposition is set
DefaultDesc == [NoDesc EXCEPT !.cb["taylor_decompose_f"] = "function_default_td"]

\* expression{number{v}}
number(v) == [k |-> "number", n |-> v, a |-> <<>>, f |-> NoDesc]

\* expression{variable{name}}
variable(name) == [k |-> "variable", n |-> name, a |-> <<>>, f |-> NoDesc]

\* expression{binary_operator{op, e1, e2}}
binary_operator(op, e1, e2) == [k |-> "binary_operator", n |-> op, a |-> <<e1, e2>>, f |-> NoDesc]

\* expression{function} with members desc, display name and arguments
function(desc, display_name, args) == [k |-> "function", n |-> display_name, a |-> args, f |-> desc]

\* the callbacks for the Taylor coefficients, which sin() and cos() set
TaylorCallbacks ==
    {"taylor_init_dbl_f", "taylor_init_ldbl_f", "taylor_diff_dbl_f", "taylor_diff_ldbl_f"}

\* the members sin(), cos(), log() and pow() give their function: names, type, the
\* callbacks for derivative and evaluation, and those in taylor_cb; td is the
\* taylor_decompose_f, the constructor's default unless it is set
BuiltinDesc(llvm_name, name, td, taylor_cb) ==
    [dbl_name |-> llvm_name, ldbl_name |-> llvm_name, attributes |-> <<>>, ty |-> "builtin",
     disable_verify |-> FALSE,
     cb |-> [c \in Callbacks |->
                IF c = "taylor_decompose_f" THEN td
                ELSE IF c \in TaylorCallbacks /\ c \notin taylor_cb THEN ""
                ELSE name]]

sin(e) == function(BuiltinDesc("llvm.sin", "sin", "sin", TaylorCallbacks), "sin", <<e>>)

cos(e) == function(BuiltinDesc("llvm.cos", "cos", "cos", TaylorCallbacks), "cos", <<e>>)

log(e) == function(BuiltinDesc("llvm.log", "log", "function_default_td", {}), "log", <<e>>)

pow(e1, e2) == function(BuiltinDesc("llvm.pow", "pow", "function_default_td", {}), "pow", <<e1, e2>>)

\* exp(), square(), the negation that the unary minus gives, and erf(): functions of
\* one argument; the first three are decomposed by the default rule
exp(e) == function(BuiltinDesc("llvm.exp", "exp", "function_default_td", TaylorCallbacks), "exp", <<e>>)

square(e) == function(BuiltinDesc("square", "square", "function_default_td", TaylorCallbacks), "square", <<e>>)

neg(e) == function(BuiltinDesc("neg", "neg", "function_default_td", TaylorCallbacks), "neg", <<e>>)

erf(e) == function(BuiltinDesc("erf", "erf", "erf", TaylorCallbacks), "erf", <<e>>)

\* a comparison of the display names alone
function_members_eq_names_only(f1, f2) == f1.n = f2.n

\* operator==(const function &, const function &) on the members other than the arguments
function_members_eq(f1, f2) ==
    /\ f1.f.dbl_name = f2.f.dbl_name
    /\ f1.f.ldbl_name = f2.f.ldbl_name
    /\ f1.n = f2.n
    /\ f1.f.attributes = f2.f.attributes
    /\ f1.f.ty = f2.f.ty
    /\ \A c \in Callbacks : (f1.f.cb[c] # "") = (f2.f.cb[c] # "")

\* operator== of expressions: the same alternative of the variant, and equal values
RECURSIVE expression_eq(_, _)

\* an equality of binary operators that takes + and * as commutative
binary_operator_eq_commutative(o1, o2) ==
    /\ o1.n = o2.n
    /\ \/ expression_eq(o1.a[1], o2.a[1]) /\ expression_eq(o1.a[2], o2.a[2])
       \/ /\ o1.n \in {"+", "*"}
          /\ expression_eq(o1.a[1], o2.a[2])
          /\ expression_eq(o1.a[2], o2.a[1])

\* operator==(const binary_operator &, const binary_operator &)
binary_operator_eq(o1, o2) ==
    /\ o1.n = o2.n
    /\ expression_eq(o1.a[1], o2.a[1])
    /\ expression_eq(o1.a[2], o2.a[2])

expression_eq(e1, e2) ==
    /\ e1.k = e2.k
    /\ IF e1.k = "function"
       THEN /\ function_members_eq(e1, e2)
            /\ Len(e1.a) = Len(e2.a)
            /\ \A i \in 1..Len(e1.a) : expression_eq(e1.a[i], e2.a[i])
       ELSE IF e1.k = "binary_operator"
       THEN binary_operator_eq(e1, e2)
       ELSE e1.n = e2.n

\* operator==(const function &, const function &)
function_eq(f1, f2) == expression_eq(f1, f2)

\* "u_" + li_to_string(i)
uname(i) == "u_" \o ToString(i)

\* the names that begin with "u_"
UNames == {uname(i) : i \in 0..MaxDecLen}

\* uname_to_index(name)
uname_to_index(name) == CHOOSE i \in 0..MaxDecLen : uname(i) = name

\* the names of the variables of the systems, in the order std::sort gives them
NameOrder == <<"s", "u_0", "x", "y">>

\* the set of the names of the variables of an expression
RECURSIVE VariablesOf(_)
VariablesOf(ex) ==
    IF ex.k = "variable" THEN {ex.n}
    ELSE UNION {VariablesOf(ex.a[i]) : i \in 1..Len(ex.a)}

\* a set of names of state variables as a sorted vector without repetitions
RECURSIVE SortedNames(_, _)
SortedNames(names, k) ==
    IF k > Len(NameOrder) THEN <<>>
    ELSE (IF NameOrder[k] \in names THEN <<NameOrder[k]>> ELSE <<>>) \o SortedNames(names, k + 1)

\* rename_variables(ex, repl_map), with the expression it leaves in ex as value
RECURSIVE rename_variables(_, _)
rename_variables(ex, repl_map) ==
    IF ex.k = "variable"
    THEN (IF ex.n \in DOMAIN repl_map THEN variable(repl_map[ex.n]) ELSE ex)
    ELSE [ex EXCEPT !.a = [i \in 1..Len(ex.a) |-> rename_variables(ex.a[i], repl_map)]]

\* subs(ex, smap)
RECURSIVE subs(_, _)
subs(ex, smap) ==
    IF ex.k = "variable"
    THEN (IF ex.n \in DOMAIN smap THEN smap[ex.n] ELSE ex)
    ELSE [ex EXCEPT !.a = [i \in 1..Len(ex.a) |-> subs(ex.a[i], smap)]]

\* the result of a decomposition in place: the definitions of the u variables, the
\* index returned and the exception thrown
TdRes(u_vars_defs, dres, exc) == [u |-> u_vars_defs, dres |-> dres, exc |-> exc]

RECURSIVE taylor_decompose_in_place(_, _)
RECURSIVE decompose_args(_, _, _)

\* the loop decomposing the arguments args[k..] of a function or binary operator:
\* a decomposed argument is replaced by the u variable that represents it
decompose_args(args, k, u_vars_defs) ==
    IF k > Len(args) THEN [args |-> args, u |-> u_vars_defs, exc |-> "none"]
    ELSE LET r == taylor_decompose_in_place(args[k], u_vars_defs)
         IN  IF r.exc # "none" THEN [args |-> args, u |-> r.u, exc |-> r.exc]
             ELSE decompose_args(IF r.dres # 0
                                 THEN [args EXCEPT ![k] = variable(uname(r.dres))]
                                 ELSE args,
                                 k + 1, r.u)

\* function_default_td(f, u_vars_defs), and the decomposition of a binary operator
\* that it generalises
function_default_td(f, u_vars_defs) ==
    LET d == decompose_args(f.a, 1, u_vars_defs)
    IN  IF d.exc # "none" THEN TdRes(d.u, 0, d.exc)
        ELSE TdRes(Append(d.u, [f EXCEPT !.a = d.args]), Len(d.u), "none")

\* the taylor_decompose_f sin() sets: the sine, then the cosine of the same argument
sin_taylor_decompose_f(f, u_vars_defs) ==
    IF Len(f.a) # 1 THEN TdRes(u_vars_defs, 0, "invalid_argument")
    ELSE LET d == decompose_args(f.a, 1, u_vars_defs)
         IN  IF d.exc # "none" THEN TdRes(d.u, 0, d.exc)
             ELSE TdRes(d.u \o <<[f EXCEPT !.a = d.args], cos(d.args[1])>>, Len(d.u), "none")

\* a cosine rule that appends the cosine without the sine before it
cos_taylor_decompose_no_sin(f, u_vars_defs) ==
    IF Len(f.a) # 1 THEN TdRes(u_vars_defs, 0, "invalid_argument")
    ELSE LET d == decompose_args(f.a, 1, u_vars_defs)
         IN  IF d.exc # "none" THEN TdRes(d.u, 0, d.exc)
             ELSE TdRes(Append(d.u, [f EXCEPT !.a = d.args]), Len(d.u), "none")

\* the taylor_decompose_f cos() sets: the sine of the argument, then the cosine
cos_taylor_decompose_f(f, u_vars_defs) ==
    IF Len(f.a) # 1 THEN TdRes(u_vars_defs, 0, "invalid_argument")
    ELSE LET d == decompose_args(f.a, 1, u_vars_defs)
         IN  IF d.exc # "none" THEN TdRes(d.u, 0, d.exc)
             ELSE TdRes(d.u \o <<sin(d.args[1]), [f EXCEPT !.a = d.args]>>, Len(d.u) + 1, "none")

\* the decomposition rule of erf(): the square of the argument, its negation, the
\* exponential of the negation, then the erf itself, whose index is returned
erf_taylor_decompose_f(f, u_vars_defs) ==
    LET d == decompose_args(f.a, 1, u_vars_defs)
        n == Len(d.u)
    IN  IF d.exc # "none" THEN TdRes(d.u, 0, d.exc)
        ELSE TdRes(d.u \o <<square(d.args[1]), neg(variable(uname(n))),
                            exp(variable(uname(n + 1))), [f EXCEPT !.a = d.args]>>,
                   n + 3, "none")

\* taylor_decompose_in_place(ex, u_vars_defs): numbers and variables are not
\* decomposed (0 is returned), a function runs its taylor_decompose_f
taylor_decompose_in_place(ex, u_vars_defs) ==
    IF ex.k \in {"number", "variable"} THEN TdRes(u_vars_defs, 0, "none")
    ELSE IF ex.k = "binary_operator" THEN function_default_td(ex, u_vars_defs)
    ELSE IF ex.f.cb["taylor_decompose_f"] = "" THEN TdRes(u_vars_defs, 0, "invalid_argument")
    ELSE IF ex.f.cb["taylor_decompose_f"] = "sin" THEN sin_taylor_decompose_f(ex, u_vars_defs)
    ELSE IF ex.f.cb["taylor_decompose_f"] = "cos" THEN cos_taylor_decompose_f(ex, u_vars_defs)
    ELSE IF ex.f.cb["taylor_decompose_f"] = "erf" THEN erf_taylor_decompose_f(ex, u_vars_defs)
    ELSE function_default_td(ex, u_vars_defs)

\* ex_map.find(ex): the indices ex is mapped to
ex_map_find(ex_map, ex) == {p.idx : p \in {q \in ex_map : expression_eq(q.ex, ex)}}

\* the loop of taylor_decompose_cse over the entries v_ex[i..] between the first and
\* the last n_eq
RECURSIVE cse_loop(_, _, _, _, _, _)
cse_loop(v_ex, n_eq, i, retval, ex_map, uvars_rename) ==
    IF i >= Len(v_ex) - n_eq
    THEN [retval |-> retval, uvars_rename |-> uvars_rename]
    ELSE LET ex == rename_variables(v_ex[i + 1], uvars_rename)
             it == ex_map_find(ex_map, ex)
         IN  IF it = {}
             THEN cse_loop(v_ex, n_eq, i + 1, Append(retval, ex),
                           ex_map \cup {[ex |-> ex, idx |-> Len(retval)]},
                           uvars_rename @@ (uname(i) :> uname(Len(retval))))
             ELSE cse_loop(v_ex, n_eq, i + 1, retval, ex_map,
                           uvars_rename @@ (uname(i) :> uname(CHOOSE j \in it : TRUE)))

\* taylor_decompose_cse(v_ex, n_eq)
taylor_decompose_cse(v_ex, n_eq) ==
    LET m == cse_loop(v_ex, n_eq, n_eq, SubSeq(v_ex, 1, n_eq), {}, <<>>)
    IN  m.retval \o [k \in 1..n_eq |->
                        rename_variables(v_ex[Len(v_ex) - n_eq + k], m.uvars_rename)]

\* the checks verify_taylor_dec makes of the form of the entries of dc
verify_taylor_dec_form(n_eq, dc) ==
    /\ Len(dc) >= n_eq * 2
    /\ \A i \in 0..(n_eq - 1) : dc[i + 1].k = "variable"
    /\ \A i \in n_eq..(Len(dc) - n_eq - 1) :
          \A var \in VariablesOf(dc[i + 1]) : var \in UNames /\ uname_to_index(var) < i
    /\ \A i \in (Len(dc) - n_eq)..(Len(dc) - 1) :
          \/ dc[i + 1].k = "variable" /\ dc[i + 1].n \in UNames
                /\ uname_to_index(dc[i + 1].n) < i
          \/ dc[i + 1].k = "number"

\* the loop of verify_taylor_dec expanding the definition of each u variable
RECURSIVE subs_map_loop(_, _, _, _)
subs_map_loop(dc, n_eq, i, subs_map) ==
    IF i >= Len(dc) - n_eq THEN subs_map
    ELSE subs_map_loop(dc, n_eq, i + 1,
                       IF uname(i) \in DOMAIN subs_map THEN subs_map
                       ELSE subs_map @@ (uname(i) :> subs(dc[i + 1], subs_map)))

\* the right-hand sides verify_taylor_dec reconstructs from dc
reconstructed(n_eq, dc) ==
    LET subs_map == subs_map_loop(dc, n_eq, 0, <<>>)
    IN  [k \in 1..n_eq |-> subs(dc[Len(dc) - n_eq + k], subs_map)]

\* the comparison of the reconstructed right-hand sides with the original ones
verify_taylor_dec_subs(orig, dc) ==
    LET rec == reconstructed(Len(orig), dc)
    IN  \A k \in 1..Len(orig) : expression_eq(rec[k], orig[k])

\* verify_taylor_dec(orig, dc): TRUE iff no assertion fails
verify_taylor_dec(orig, dc) ==
    verify_taylor_dec_form(Len(orig), dc) /\ verify_taylor_dec_subs(orig, dc)

\* the map renaming the variables vars to u_i
repl_map_of(vars) == [name \in {vars[i] : i \in 1..Len(vars)} |->
                         uname((CHOOSE i \in 1..Len(vars) : vars[i] = name) - 1)]

\* the loop running the decomposition on each equation v_ex[i..]; v_ex_copy gets the
\* u variable of each equation that was decomposed
RECURSIVE decompose_equations(_, _, _, _)
decompose_equations(v_ex, i, u_vars_defs, v_ex_copy) ==
    IF i > Len(v_ex) THEN [u |-> u_vars_defs, v_ex_copy |-> v_ex_copy, exc |-> "none"]
    ELSE LET r == taylor_decompose_in_place(v_ex[i], u_vars_defs)
         IN  IF r.exc # "none" THEN [u |-> r.u, v_ex_copy |-> v_ex_copy, exc |-> r.exc]
             ELSE decompose_equations(v_ex, i + 1, r.u,
                                      IF r.dres # 0
                                      THEN [v_ex_copy EXCEPT ![i] = variable(uname(r.dres))]
                                      ELSE v_ex_copy)

\* what a taylor_decompose call leaves: the exception, or the decomposition before
\* (pre) and after (dc) the simplification, and whether an assertion of
\* verify_taylor_dec fails in a build with assertions
Rejected(op, orig) ==
    [NoDec EXCEPT !.op = op, !.exc = "invalid_argument", !.n_eq = Len(orig), !.orig = orig]

\* a taylor_decompose that returns the decomposition without simplifying it
taylor_decompose_no_cse(op, orig, vars) ==
    LET v_ex == [i \in 1..Len(orig) |-> rename_variables(orig[i], repl_map_of(vars))]
        d == decompose_equations(v_ex, 1, [i \in 1..Len(vars) |-> variable(vars[i])], v_ex)
        pre == d.u \o d.v_ex_copy
    IN  IF d.exc # "none" THEN Rejected(op, orig)
        ELSE [NoDec EXCEPT !.op = op, !.n_eq = Len(orig), !.orig = orig, !.vars = vars,
                           !.pre = pre, !.dc = pre,
                           !.assert_failed = ~verify_taylor_dec(orig, pre)]

\* a taylor_decompose that appends the last n_eq entries after the simplification
taylor_decompose_tail_not_renamed(op, orig, vars) ==
    LET v_ex == [i \in 1..Len(orig) |-> rename_variables(orig[i], repl_map_of(vars))]
        d == decompose_equations(v_ex, 1, [i \in 1..Len(vars) |-> variable(vars[i])], v_ex)
        pre == d.u \o d.v_ex_copy
        dc == SubSeq(taylor_decompose_cse(pre, Len(orig)), 1,
                     Len(taylor_decompose_cse(pre, Len(orig))) - Len(orig))
                 \o d.v_ex_copy
    IN  IF d.exc # "none" THEN Rejected(op, orig)
        ELSE [NoDec EXCEPT !.op = op, !.n_eq = Len(orig), !.orig = orig, !.vars = vars,
                           !.pre = pre, !.dc = dc,
                           !.assert_failed = ~verify_taylor_dec(orig, pre)
                                                \/ ~verify_taylor_dec(orig, dc)]

\* the part the two taylor_decompose overloads share: renaming of the variables vars
\* to u_i, decomposition of each equation, simplification, verification
taylor_decompose_vars(op, orig, vars) ==
    LET v_ex == [i \in 1..Len(orig) |-> rename_variables(orig[i], repl_map_of(vars))]
        d == decompose_equations(v_ex, 1, [i \in 1..Len(vars) |-> variable(vars[i])], v_ex)
        pre == d.u \o d.v_ex_copy
        dc == taylor_decompose_cse(pre, Len(orig))
    IN  IF d.exc # "none" THEN Rejected(op, orig)
        ELSE [NoDec EXCEPT !.op = op, !.n_eq = Len(orig), !.orig = orig, !.vars = vars,
                           !.pre = pre, !.dc = dc,
                           !.assert_failed = ~verify_taylor_dec(orig, pre)
                                                \/ ~verify_taylor_dec(orig, dc)]

\* taylor_decompose(std::vector<expression> v_ex)
taylor_decompose(v_ex) ==
    LET vars == SortedNames(UNION {VariablesOf(v_ex[i]) : i \in 1..Len(v_ex)}, 1)
    IN  IF Len(v_ex) = 0 THEN Rejected("taylor_decompose", v_ex)
        ELSE IF Len(vars) # Len(v_ex) THEN Rejected("taylor_decompose", v_ex)
        ELSE taylor_decompose_vars("taylor_decompose", v_ex, vars)

\* a taylor_decompose of pairs that does not look for right-hand side variables
\* among the left-hand sides
taylor_decompose_pairs_rhs_unchecked(s) ==
    LET lhs_vars == [i \in 1..Len(s) |-> s[i][1].n]
        orig_rhs == [i \in 1..Len(s) |-> s[i][2]]
    IN  IF Len(s) = 0 THEN Rejected("taylor_decompose_pairs", orig_rhs)
        ELSE IF \E i \in 1..Len(s) :
                    \/ s[i][1].k # "variable"
                    \/ \E j \in 1..(i - 1) : s[j][1].n = s[i][1].n
             THEN Rejected("taylor_decompose_pairs", orig_rhs)
        ELSE taylor_decompose_vars("taylor_decompose_pairs", orig_rhs, lhs_vars)

\* taylor_decompose(std::vector<std::pair<expression, expression>> sys)
taylor_decompose_pairs(s) ==
    LET lhs_vars == [i \in 1..Len(s) |-> s[i][1].n]
        orig_rhs == [i \in 1..Len(s) |-> s[i][2]]
        rhs_vars_set == UNION {VariablesOf(s[i][2]) : i \in 1..Len(s)}
    IN  IF Len(s) = 0 THEN Rejected("taylor_decompose_pairs", orig_rhs)
        ELSE IF \E i \in 1..Len(s) :
                    \/ s[i][1].k # "variable"
                    \/ \E j \in 1..(i - 1) : s[j][1].n = s[i][1].n
             THEN Rejected("taylor_decompose_pairs", orig_rhs)
        ELSE IF \E var \in rhs_vars_set : \A i \in 1..Len(s) : s[i][1].n # var
             THEN Rejected("taylor_decompose_pairs", orig_rhs)
        ELSE taylor_decompose_vars("taylor_decompose_pairs", orig_rhs, lhs_vars)

\* right-hand sides of the first equation: numbers, variables (one of them named
\* u_0), sums and products, sines and cosines of them and of each other, sums of
\* sines and cosines, logarithms and powers, a function whose taylor_decompose_f was
\* emptied and a sine given two arguments
Rhs ==
    LET s == variable("s")
        x == variable("x")
        Atoms == {s, x, number("2")}
        Sums == {binary_operator("+", a, b) : a, b \in Atoms} \cup {binary_operator("*", s, x)}
        TrigArgs == Atoms \cup {binary_operator("+", s, x)}
        Trig1 == {sin(a) : a \in TrigArgs} \cup {cos(a) : a \in TrigArgs}
        Trig2 == {sin(e) : e \in {sin(s), cos(s), cos(x)}}
                    \cup {cos(e) : e \in {sin(s), cos(s), cos(x)}}
        TrigTerms == {sin(s), cos(s), sin(x), sin(binary_operator("+", s, x)),
                      cos(binary_operator("+", s, x))}
        TrigSums == {binary_operator("+", a, b) : a, b \in TrigTerms}
        Others == {log(s), log(binary_operator("+", s, x)), pow(s, x),
                   pow(binary_operator("+", s, x), binary_operator("+", s, x))}
        Malformed == {function([DefaultDesc EXCEPT !.cb["taylor_decompose_f"] = ""], "f", <<s>>),
                      [sin(s) EXCEPT !.a = <<s, x>>]}
    IN  Atoms \cup {variable("u_0")} \cup Sums \cup Trig1 \cup Trig2 \cup TrigSums
           \cup Others \cup Malformed

\* the system of the test of the simplification with hidden dependencies:
\* x' = exp(-square(x + y)) + erf(x + y), y' = x
ErfSystem ==
    LET x == variable("x")
        y == variable("y")
    IN  <<<<x, binary_operator("+", exp(neg(square(binary_operator("+", x, y)))),
                               erf(binary_operator("+", x, y)))>>,
          <<y, x>>>>

\* the systems of equations handed to taylor_decompose: none, one or two equations,
\* the left-hand sides being variables, twice the same variable, or no variable
Systems ==
    LET Rhs2 == {variable("s"), variable("x"), variable("u_0"), number("2"), sin(variable("s")),
                 binary_operator("+", variable("s"), variable("x")),
                 cos(binary_operator("+", variable("s"), variable("x")))}
        Lhs1 == {variable("s"), variable("x"), number("2")}
        Lhs2 == {<<variable("s"), variable("x")>>, <<variable("x"), variable("s")>>,
                 <<variable("s"), variable("u_0")>>, <<variable("s"), variable("s")>>,
                 <<sin(variable("s")), variable("x")>>}
    IN  {<<>>, ErfSystem}
           \cup {<<<<l, r>>>> : l \in Lhs1, r \in Rhs}
           \cup {<<<<l[1], r1>>, <<l[2], r2>>>> : l \in Lhs2, r1 \in Rhs, r2 \in Rhs2}

\* the variables of the integrators
int_vars == <<m_state, m_time, m_rtol, m_atol, m_order_r, m_order_a, pc, prop, last, hist,
              ret, calls, nf_seen, m_states, m_times, res, m_h>>

\* no integrator is constructed
NoIntegrator ==
    /\ m_state = <<>>
    /\ m_time = 0
    /\ m_rtol = 0
    /\ m_atol = 0
    /\ m_order_r = 0
    /\ m_order_a = 0
    /\ pc = "idle"
    /\ prop = PropIdle
    /\ last = LastOf(step_err("none", <<>>, 0, 0, NoFn), 0)
    /\ hist = <<>>
    /\ ret = RetBase
    /\ calls = 0
    /\ nf_seen = 0
    /\ m_states = <<>>
    /\ m_times = <<>>
    /\ res = <<>>
    /\ m_h = <<>>

\* a system of equations is at hand
InitDec ==
    /\ NoIntegrator
    /\ sys \in Systems
    /\ dec = NoDec

\* taylor_decompose on the right-hand sides of the system, the variables being deduced
decompose ==
    /\ dec' = taylor_decompose([i \in 1..Len(sys) |-> sys[i][2]])
    /\ UNCHANGED <<sys, int_vars>>

\* taylor_decompose on the system of pairs
decompose_pairs ==
    /\ dec' = taylor_decompose_pairs(sys)
    /\ UNCHANGED <<sys, int_vars>>

NextDec ==
    \/ decompose
    \/ decompose_pairs

SpecDec == InitDec /\ [][NextDec]_svars

\* two functions are at hand: sin(x), or sin(x) with one member changed through the
\* accessors of function
InitEq ==
    LET f == sin(variable("x"))
        Functions == {f,
                      [f EXCEPT !.f.dbl_name = "other"],
                      [f EXCEPT !.f.ldbl_name = "other"],
                      [f EXCEPT !.n = "other"],
                      [f EXCEPT !.a = <<variable("s")>>],
                      [f EXCEPT !.a = <<variable("x"), variable("x")>>],
                      [f EXCEPT !.f.attributes = <<"readnone">>],
                      [f EXCEPT !.f.ty = "external"],
                      [f EXCEPT !.f.cb["diff_f"] = ""],
                      [f EXCEPT !.f.cb["diff_f"] = "other"],
                      [f EXCEPT !.f.cb["taylor_decompose_f"] = "function_default_td"],
                      [f EXCEPT !.f.disable_verify = TRUE]}
    IN  /\ NoIntegrator
        /\ sys \in {<<<<f1, f2>>>> : f1, f2 \in Functions}
        /\ dec = NoDec

\* f1 == f2 on the two functions
compare ==
    /\ dec' = [NoDec EXCEPT !.op = "function_eq", !.orig = sys[1],
                            !.eq = function_eq(sys[1][1], sys[1][2])]
    /\ UNCHANGED <<sys, int_vars>>

SpecEq == InitEq /\ [][compare]_svars

\* ------------------------------------------------------------------------
\* Operations on expressions
\* ------------------------------------------------------------------------

\* expression{param{idx}}
param(idx) == [k |-> "param", n |-> idx, a |-> <<>>, f |-> NoDesc]

\* what a call returns: the value v, or the exception it throws (v is then unused)
Value(v) == [exc |-> "none", v |-> v]

Thrown(exc) == [exc |-> exc, v |-> number("0")]

RECURSIVE diff(_, _)

\* a diff_f of sin() without the check of the number of arguments
sin_diff_f_unchecked(args, s) ==
    LET d == diff(args[1], s)
    IN  IF d.exc # "none" THEN d
        ELSE Value(binary_operator("*", cos(args[1]), d.v))

\* the diff_f sin() sets: cos(args[0]) * diff(args[0], s)
sin_diff_f(args, s) ==
    IF Len(args) # 1 THEN Thrown("invalid_argument")
    ELSE LET d == diff(args[1], s)
         IN  IF d.exc # "none" THEN d
             ELSE Value(binary_operator("*", cos(args[1]), d.v))

\* the diff_f cos() sets: -sin(args[0]) * diff(args[0], s)
cos_diff_f(args, s) ==
    IF Len(args) # 1 THEN Thrown("invalid_argument")
    ELSE LET d == diff(args[1], s)
         IN  IF d.exc # "none" THEN d
             ELSE Value(binary_operator("*", neg(sin(args[1])), d.v))

\* the diff_f log() sets: expression{number(1.)} / args[0] * diff(args[0], s)
log_diff_f(args, s) ==
    IF Len(args) # 1 THEN Thrown("invalid_argument")
    ELSE LET d == diff(args[1], s)
         IN  IF d.exc # "none" THEN d
             ELSE Value(binary_operator("*", binary_operator("/", number("1"), args[1]), d.v))

\* the diff_f pow() sets: args[1] * pow(args[0], args[1] - 1) * diff(args[0], s)
\*                        + pow(args[0], args[1]) * log(args[0]) * diff(args[1], s)
pow_diff_f(args, s) ==
    IF Len(args) # 2 THEN Thrown("invalid_argument")
    ELSE LET d1 == diff(args[1], s)
             d2 == diff(args[2], s)
         IN  IF d1.exc # "none" THEN d1
             ELSE IF d2.exc # "none" THEN d2
             ELSE Value(binary_operator("+",
                      binary_operator("*",
                          binary_operator("*", args[2],
                              pow(args[1], binary_operator("-", args[2], number("1")))),
                          d1.v),
                      binary_operator("*",
                          binary_operator("*", pow(args[1], args[2]), log(args[1])),
                          d2.v)))

\* diff(const binary_operator &, const std::string &)
binary_operator_diff(bo, s) ==
    LET d1 == diff(bo.a[1], s)
        d2 == diff(bo.a[2], s)
    IN  IF d1.exc # "none" THEN d1
        ELSE IF d2.exc # "none" THEN d2
        ELSE IF bo.n \in {"+", "-"} THEN Value(binary_operator(bo.n, d1.v, d2.v))
        ELSE IF bo.n = "*"
        THEN Value(binary_operator("+", binary_operator("*", d1.v, bo.a[2]),
                                      binary_operator("*", bo.a[1], d2.v)))
        ELSE Value(binary_operator("/",
                          binary_operator("-", binary_operator("*", d1.v, bo.a[2]),
                                          binary_operator("*", bo.a[1], d2.v)),
                          binary_operator("*", bo.a[2], bo.a[2])))

\* diff(const expression &, const std::string &): a number and a param give 0, a
\* variable gives 1 for s and 0 otherwise, a function runs its diff_f if it has one
diff(ex, s) ==
    IF ex.k \in {"number", "param"} THEN Value(number("0"))
    ELSE IF ex.k = "variable" THEN Value(number(IF ex.n = s THEN "1" ELSE "0"))
    ELSE IF ex.k = "binary_operator" THEN binary_operator_diff(ex, s)
    ELSE IF ex.f.cb["diff_f"] = "sin" THEN sin_diff_f(ex.a, s)
    ELSE IF ex.f.cb["diff_f"] = "cos" THEN cos_diff_f(ex.a, s)
    ELSE IF ex.f.cb["diff_f"] = "log" THEN log_diff_f(ex.a, s)
    ELSE IF ex.f.cb["diff_f"] = "pow" THEN pow_diff_f(ex.a, s)
    ELSE Thrown("invalid_argument")

\* a double that is not computed here: the result of applying fn (an operator, a
\* function of <cmath>, or the name of an input) to args
Num(fn, args) == [fn |-> fn, args |-> args]

\* number of entries of a batch of values
BatchWidth == 2

\* the first exception among the results rs in the order the operands are evaluated
\* (an order the compiler chooses), or the application of fn to their values
Apply(fn, rs, lhs_first) ==
    LET failed == {i \in 1..Len(rs) : rs[i].exc # "none"}
    IN  IF failed = {}
        THEN [exc |-> "none", v |-> Num(fn, [i \in 1..Len(rs) |-> rs[i].v])]
        ELSE [exc |-> rs[IF lhs_first THEN SetMin(failed) ELSE SetMax(failed)].exc,
              v |-> Num("0", <<>>)]

\* number of arguments the callbacks of sin, cos and log (1) and of pow (2) insist on
expected_args(name) == IF name = "pow" THEN 2 ELSE 1

RECURSIVE eval_dbl(_, _, _, _)

\* an eval_dbl_f that returns a value without evaluating the arguments
eval_dbl_f_args_not_evaluated(name, args, map, lhs_first) ==
    IF Len(args) # expected_args(name)
    THEN [exc |-> "invalid_argument", v |-> Num("0", <<>>)]
    ELSE [exc |-> "none", v |-> Num(name, <<>>)]

\* the eval_dbl_f of sin(), cos(), log() and pow(): std::name of the values of the
\* arguments, which are evaluated without the parameters
eval_dbl_f(name, args, map, lhs_first) ==
    IF Len(args) # expected_args(name)
    THEN [exc |-> "invalid_argument", v |-> Num("0", <<>>)]
    ELSE Apply(name, [i \in 1..Len(args) |-> eval_dbl(args[i], map, <<>>, lhs_first)], lhs_first)

\* eval_dbl(ex, map, pars): the value of a number, of a variable that map holds, of
\* a param that pars holds, of a binary operator and of a function with an eval_dbl_f
eval_dbl(ex, map, pars, lhs_first) ==
    IF ex.k = "number" THEN [exc |-> "none", v |-> Num(ex.n, <<>>)]
    ELSE IF ex.k = "variable"
    THEN (IF ex.n \in map THEN [exc |-> "none", v |-> Num(ex.n, <<>>)]
          ELSE [exc |-> "invalid_argument", v |-> Num("0", <<>>)])
    ELSE IF ex.k = "param"
    THEN (IF ex.n >= Len(pars) THEN [exc |-> "out_of_range", v |-> Num("0", <<>>)]
          ELSE [exc |-> "none", v |-> pars[ex.n + 1]])
    ELSE IF ex.k = "binary_operator"
    THEN Apply(ex.n, <<eval_dbl(ex.a[1], map, <<>>, lhs_first),
                       eval_dbl(ex.a[2], map, <<>>, lhs_first)>>, lhs_first)
    ELSE IF ex.f.cb["eval_dbl_f"] = "" THEN [exc |-> "invalid_argument", v |-> Num("0", <<>>)]
    ELSE eval_dbl_f(ex.f.cb["eval_dbl_f"], ex.a, map, lhs_first)

\* entry i of the batch of values of an input
Lane(v, i) == Num("lane", <<v, Num(ToString(i), <<>>)>>)

\* the outcome of element-wise work on batches: the first exception in the order of
\* the statements, or the batch of the applications of fn
ApplyBatch(fn, rs) ==
    LET failed == {i \in 1..Len(rs) : rs[i].exc # "none"}
    IN  IF failed = {}
        THEN [exc |-> "none",
              v |-> [l \in 1..BatchWidth |-> Num(fn, [i \in 1..Len(rs) |-> rs[i].v[l]])]]
        ELSE [exc |-> rs[SetMin(failed)].exc, v |-> <<>>]

RECURSIVE eval_batch_dbl(_, _, _)

\* the eval_batch_dbl_f of sin(), cos(), log() and pow()
eval_batch_dbl_f(name, args, map) ==
    IF Len(args) # expected_args(name) THEN [exc |-> "invalid_argument", v |-> <<>>]
    ELSE ApplyBatch(name, [i \in 1..Len(args) |-> eval_batch_dbl(args[i], map, <<>>)])

\* eval_batch_dbl(out, ex, map, pars), with the batch left in out as value
eval_batch_dbl(ex, map, pars) ==
    IF ex.k = "number" THEN [exc |-> "none", v |-> [l \in 1..BatchWidth |-> Num(ex.n, <<>>)]]
    ELSE IF ex.k = "variable"
    THEN (IF ex.n \in map
          THEN [exc |-> "none", v |-> [l \in 1..BatchWidth |-> Lane(Num(ex.n, <<>>), l)]]
          ELSE [exc |-> "invalid_argument", v |-> <<>>])
    ELSE IF ex.k = "param"
    THEN (IF ex.n >= Len(pars) THEN [exc |-> "out_of_range", v |-> <<>>]
          ELSE [exc |-> "none", v |-> [l \in 1..BatchWidth |-> pars[ex.n + 1]]])
    ELSE IF ex.k = "binary_operator"
    THEN ApplyBatch(ex.n, <<eval_batch_dbl(ex.a[1], map, <<>>), eval_batch_dbl(ex.a[2], map, <<>>)>>)
    ELSE IF ex.f.cb["eval_batch_dbl_f"] = "" THEN [exc |-> "invalid_argument", v |-> <<>>]
    ELSE eval_batch_dbl_f(ex.f.cb["eval_batch_dbl_f"], ex.a, map)

\* the deval_num_dbl_f of sin(), cos(), log() and pow(): the value returned for
\* the values args of the arguments and the index i of an argument
deval_num_dbl_f(name, args, i) ==
    IF name = "pow"
    THEN (IF Len(args) # 2 \/ i > 1 THEN Thrown("invalid_argument")
          ELSE Value(Num("+", <<Num("*", <<args[2],
                                           Num("pow", <<args[1],
                                                        Num("-", <<args[2], Num("1", <<>>)>>)>>)>>),
                                Num("*", <<Num("log", <<args[1]>>),
                                           Num("pow", <<args[1], args[2]>>)>>)>>)))
    ELSE IF Len(args) # 1 \/ i # 0 THEN Thrown("invalid_argument")
    ELSE IF name = "sin" THEN Value(Num("cos", <<args[1]>>))
    ELSE IF name = "cos" THEN Value(Num("neg", <<Num("sin", <<args[1]>>)>>))
    ELSE Value(Num("/", <<Num("1", <<>>), args[1]>>))

\* deval_num_dbl(f, in, d)
deval_num_dbl(f, in, d) ==
    IF f.f.cb["deval_num_dbl_f"] = "" THEN Thrown("invalid_argument")
    ELSE deval_num_dbl_f(f.f.cb["deval_num_dbl_f"], in, d)

\* update_grad_dbl(grad, f, ..., acc) on a function: what it passes as acc to
\* the call on argument i, for the values in_values of the arguments, up to
\* the first call of deval_num_dbl that throws
update_grad_dbl(f, in_values, acc) ==
    LET value == [i \in 1..Len(f.a) |-> deval_num_dbl(f, in_values, i - 1)]
        failed == {i \in 1..Len(f.a) : value[i].exc # "none"}
        n == IF failed = {} THEN Len(f.a) ELSE SetMin(failed) - 1
    IN  [exc |-> IF failed = {} THEN "none" ELSE value[n + 1].exc,
         v |-> [i \in 1..n |-> Num("*", <<acc, value[i].v>>)]]

\* the values of the arguments a derivative is asked at
InValues == {[i \in 1..n |-> Num("in", <<Num(ToString(i - 1), <<>>)>>)] : n \in 0..3}

\* the names an evaluation map holds, and the vectors of values of parameters
Maps == {{"x", "y", "z"}, {"x", "y"}, {"x"}, {}}

ParVectors == {[i \in 1..n |-> Num("pars", <<Num(ToString(i - 1), <<>>)>>)] : n \in 0..2}

RECURSIVE update_connections(_, _, _)
RECURSIVE update_connections_args(_, _, _, _, _)

\* a loop over the arguments that gives argument i the id node_id + 1 + i
update_connections_args_ids_in_a_row(node_connections, args, i, node_id, node_counter) ==
    IF i > Len(args) THEN [nc |-> node_connections, counter |-> node_counter]
    ELSE LET r == update_connections([node_connections EXCEPT ![node_id + 1][i] = node_id + i],
                                     args[i], node_counter)
         IN  update_connections_args(r.nc, args, i + 1, node_id, r.counter)

\* the loop of update_connections over the arguments args[i..] of node node_id: the
\* id of an argument is the value of the counter when its turn comes
update_connections_args(node_connections, args, i, node_id, node_counter) ==
    IF i > Len(args) THEN [nc |-> node_connections, counter |-> node_counter]
    ELSE LET r == update_connections([node_connections EXCEPT ![node_id + 1][i] = node_counter],
                                     args[i], node_counter)
         IN  update_connections_args(r.nc, args, i + 1, node_id, r.counter)

\* update_connections(node_connections, ex, node_counter): a leaf adds an empty entry;
\* a function or a binary operator adds an entry as long as its arguments, then
\* goes through them
update_connections(node_connections, ex, node_counter) ==
    IF ex.k \in {"number", "variable", "param"}
    THEN [nc |-> Append(node_connections, <<>>), counter |-> node_counter + 1]
    ELSE update_connections_args(Append(node_connections, [i \in 1..Len(ex.a) |-> 0]),
                                 ex.a, 1, node_counter, node_counter + 1)

\* compute_connections(ex)
compute_connections(ex) == update_connections(<<>>, ex, 0).nc

\* the expressions the operations are called on: leaves, operators, calls of
\* sin, cos, log and pow, a function that was given no callback, and calls whose
\* argument list was changed through function::args()
Exprs ==
    LET x == variable("x")
        y == variable("y")
        f == function(DefaultDesc, "f", <<x>>)
    IN  {x, y, variable("z"), number("0"), number("2"), param(0), param(1),
         binary_operator("+", x, number("0")),
         binary_operator("+", number("1"), cos(x)),
         binary_operator("+", cos(x), number("1")),
         binary_operator("*", x, y),
         binary_operator("*", y, x),
         binary_operator("-", x, y),
         binary_operator("/", x, y),
         binary_operator("+", binary_operator("*", x, binary_operator("*", x, y)), number("2")),
         sin(x), cos(x), log(x), pow(x, y), pow(x, number("2")),
         sin(binary_operator("*", x, y)), cos(sin(x)), log(pow(x, y)),
         pow(sin(x), cos(y)),
         binary_operator("+", pow(x, number("2")), binary_operator("*", y, cos(x))),
         f, sin(f), binary_operator("*", x, f), pow(x, log(variable("z"))),
         sin(param(1)), binary_operator("*", param(0), cos(param(1))),
         [sin(x) EXCEPT !.a = <<x, y>>],
         [cos(x) EXCEPT !.a = <<>>],
         [log(x) EXCEPT !.a = <<x, y>>],
         [pow(x, y) EXCEPT !.a = <<x>>],
         binary_operator("+", y, [pow(x, y) EXCEPT !.a = <<x, y, x>>])}

\* two expressions are at hand
InitExpr ==
    /\ NoIntegrator
    /\ sys \in {<<<<e1, e2>>>> : e1, e2 \in Exprs}
    /\ dec = NoDec

\* what a call on the expression sys[1][1] with argument arg leaves
ExprCall(op, arg, r) ==
    [NoDec EXCEPT !.op = op, !.orig = <<sys[1][1]>>, !.vars = arg, !.exc = r.exc,
                  !.dc = IF r.exc = "none" THEN <<r.v>> ELSE <<>>]

\* diff(ex, s) on the first expression
diff_call ==
    /\ \E s \in {"x", "y"} : dec' = ExprCall("diff", <<s>>, diff(sys[1][1], s))
    /\ UNCHANGED <<sys, int_vars>>

\* eval_dbl(ex, map, pars) on the first expression
eval_dbl_call ==
    /\ \E map \in Maps, pars \in ParVectors, lhs_first \in BOOLEAN :
          dec' = ExprCall("eval_dbl", <<map, Len(pars)>>, eval_dbl(sys[1][1], map, pars, lhs_first))
    /\ UNCHANGED <<sys, int_vars>>

\* eval_batch_dbl(out, ex, map, pars) on the first expression
eval_batch_dbl_call ==
    /\ \E map \in Maps, pars \in ParVectors :
          dec' = ExprCall("eval_batch_dbl", <<map, Len(pars)>>, eval_batch_dbl(sys[1][1], map, pars))
    /\ UNCHANGED <<sys, int_vars>>

\* ex1 == ex2 on the two expressions
equal_call ==
    /\ dec' = [NoDec EXCEPT !.op = "operator==", !.orig = sys[1],
                            !.eq = expression_eq(sys[1][1], sys[1][2])]
    /\ UNCHANGED <<sys, int_vars>>

\* compute_connections(ex) on the first expression
compute_connections_call ==
    /\ dec' = ExprCall("compute_connections", <<>>, Value(compute_connections(sys[1][1])))
    /\ UNCHANGED <<sys, int_vars>>

\* deval_num_dbl(f, in, d) on the first expression, a function
deval_num_dbl_call ==
    /\ sys[1][1].k = "function"
    /\ \E in \in InValues, d \in 0..2 :
          dec' = ExprCall("deval_num_dbl", <<in, d>>, deval_num_dbl(sys[1][1], in, d))
    /\ UNCHANGED <<sys, int_vars>>

\* update_grad_dbl(grad, f, map, node_values, node_connections, node_counter, acc)
\* on the first expression, a function: in_values has one entry per argument
update_grad_dbl_call ==
    /\ sys[1][1].k = "function"
    /\ \E in \in {in \in InValues : Len(in) = Len(sys[1][1].a)} :
          dec' = [ExprCall("update_grad_dbl", <<in>>, Value(<<>>))
                    EXCEPT !.exc = update_grad_dbl(sys[1][1], in, Num("acc", <<>>)).exc,
                           !.dc = update_grad_dbl(sys[1][1], in, Num("acc", <<>>)).v]
    /\ UNCHANGED <<sys, int_vars>>

NextExpr ==
    \/ diff_call
    \/ deval_num_dbl_call
    \/ update_grad_dbl_call
    \/ compute_connections_call
    \/ equal_call
    \/ eval_dbl_call
    \/ eval_batch_dbl_call

SpecExpr == InitExpr /\ [][NextExpr]_svars

\* ------------------------------------------------------------------------
\* Taylor derivatives of sine and cosine (src/src/math_functions.cpp)
\* ------------------------------------------------------------------------

\* highest order for which the jet of a decomposition is filled
MaxJetOrder == 2

RECURSIVE gcd(_, _)
gcd(a, b) == IF b = 0 THEN a ELSE gcd(b, a % b)

\* The coefficients of a jet are kept as exact rationals p/q in lowest terms
\* (q > 0): the recurrences are about which coefficients enter a sum, the
\* rounding of T is left out.  q = 0 marks what a load from a slot that was
\* never written gives.
Q(p, q) ==
    IF q = 0 THEN [p |-> 0, q |-> 0]
    ELSE LET g == gcd(IF p < 0 THEN -p ELSE p, q) IN [p |-> p \div g, q |-> q \div g]

\* CreateFAdd, CreateFMul, CreateFDiv, CreateFNeg, CreateUIToFP
FAdd(a, b) == Q(a.p * b.q + b.p * a.q, a.q * b.q)
FMul(a, b) == Q(a.p * b.p, a.q * b.q)
FDiv(a, b) == IF b.p < 0 THEN Q(-(a.p * b.q), a.q * (-b.p)) ELSE Q(a.p * b.q, a.q * b.p)
FNeg(a) == [p |-> -a.p, q |-> a.q]
UIToFP(n) == Q(n, 1)

\* CreateLoad(CreateInBoundsGEP(diff_ptr, arr_idx)): the jet holds the slots
\* written so far, order after order and, within an order, u variable after u variable
Load(jet, arr_idx) == IF arr_idx < Len(jet) THEN jet[arr_idx + 1] ELSE Q(0, 0)

\* what a generated function returns, with the indices it loaded from
DiffValue(v, reads) == [exc |-> "none", v |-> v, reads |-> reads]
DiffThrown(exc) == [exc |-> exc, v |-> Q(0, 1), reads |-> <<>>]

\* the loop of the generated function, entered at j with the accumulator and
\* the loads in st: the body runs first, the end condition next_j <= order
\* is tested after it.  c_idx is idx + 1 for the sine and idx - 1 for the
\* cosine.  order >= j on every entry, so order - j does not wrap.
RECURSIVE taylor_diff_loop(_, _, _, _, _, _, _)
taylor_diff_loop(jet, order, n_uvars, c_idx, u_idx, j_var, st) ==
    LET arr_idx0 == (order - j_var) * n_uvars + c_idx
        arr_idx1 == j_var * n_uvars + u_idx
        v0 == Load(jet, arr_idx0)
        v1 == Load(jet, arr_idx1)
        st1 == [ret_acc |-> FAdd(st.ret_acc, FMul(UIToFP(j_var), FMul(v0, v1))),
                reads |-> st.reads \o <<arr_idx0, arr_idx1>>]
        next_j_var == j_var + 1
    IN  IF next_j_var <= order
        THEN taylor_diff_loop(jet, order, n_uvars, c_idx, u_idx, next_j_var, st1)
        ELSE st1

\* the function generated by taylor_diff_sin_impl for sin(variable), run on
\* a jet at an order
taylor_diff_sin_impl(jet, var, idx, order, n_uvars) ==
    LET st == taylor_diff_loop(jet, order, n_uvars, idx + 1, uname_to_index(var.n), 1,
                               [ret_acc |-> Q(0, 1), reads |-> <<>>])
    IN  DiffValue(FDiv(st.ret_acc, UIToFP(order)), st.reads)

\* a cosine whose generated function returns the quotient without CreateFNeg
taylor_diff_cos_impl_not_negated(jet, var, idx, order, n_uvars) ==
    LET st == taylor_diff_loop(jet, order, n_uvars, idx - 1, uname_to_index(var.n), 1,
                               [ret_acc |-> Q(0, 1), reads |-> <<>>])
    IN  DiffValue(FDiv(st.ret_acc, UIToFP(order)), st.reads)

\* the function generated by taylor_diff_cos_impl for cos(variable)
taylor_diff_cos_impl(jet, var, idx, order, n_uvars) ==
    LET st == taylor_diff_loop(jet, order, n_uvars, idx - 1, uname_to_index(var.n), 1,
                               [ret_acc |-> Q(0, 1), reads |-> <<>>])
    IN  DiffValue(FNeg(FDiv(st.ret_acc, UIToFP(order))), st.reads)

\* taylor_diff_sin(s, func, idx, name, n_uvars, cd_uvars) and the function it
\* generates: the visit of the argument picks the overload for a number
\* (returns 0), for a variable, or for anything else (throws)
taylor_diff_sin(jet, func, idx, order, n_uvars) ==
    IF Len(func.a) # 1 THEN DiffThrown("invalid_argument")
    ELSE IF func.a[1].k = "number" THEN DiffValue(Q(0, 1), <<>>)
    ELSE IF func.a[1].k = "variable" THEN taylor_diff_sin_impl(jet, func.a[1], idx, order, n_uvars)
    ELSE DiffThrown("invalid_argument")

\* taylor_diff_cos(s, func, idx, name, n_uvars, cd_uvars)
taylor_diff_cos(jet, func, idx, order, n_uvars) ==
    IF Len(func.a) # 1 THEN DiffThrown("invalid_argument")
    ELSE IF func.a[1].k = "number" THEN DiffValue(Q(0, 1), <<>>)
    ELSE IF func.a[1].k = "variable" THEN taylor_diff_cos_impl(jet, func.a[1], idx, order, n_uvars)
    ELSE DiffThrown("invalid_argument")

\* the systems whose jets are filled
JetSystems ==
    {<<sin(variable("x"))>>,
     <<cos(variable("x"))>>,
     <<binary_operator("+", variable("x"), sin(number("2")))>>,
     <<sin(variable("y")), cos(variable("x"))>>}

\* A system was decomposed; its jet is empty.  dec.orig is the decomposition,
\* dec.n_eq the number of equations, dec.dc the jet.
InitJet ==
    /\ NoIntegrator
    /\ sys \in {<<s>> : s \in JetSystems}
    /\ dec = [NoDec EXCEPT !.op = "taylor_decompose", !.n_eq = Len(sys[1]),
                           !.orig = taylor_decompose(sys[1]).dc]

\* number of u variables: the decomposition without its last n_eq entries
JetNUVars == Len(dec.orig) - dec.n_eq
\* the order and the u variable of the next slot of the jet
JetOrder == Len(dec.dc) \div JetNUVars
JetIdx == Len(dec.dc) % JetNUVars

\* order 0: the state and the values of the u variables
taylor_init_row ==
    /\ Len(dec.dc) = 0
    /\ \E row \in [1..JetNUVars -> {Q(1, 1), Q(2, 1)}] :
          dec' = [dec EXCEPT !.op = "taylor_init", !.dc = row]
    /\ UNCHANGED <<sys, int_vars>>

\* the slot written with what a generated function returned
JetWrite(op, r) ==
    [dec EXCEPT !.op = op, !.exc = r.exc, !.vars = <<JetIdx, JetOrder>>, !.pre = r.reads,
                !.dc = IF r.exc = "none" THEN Append(dec.dc, r.v) ELSE dec.dc]

\* the derivative of order JetOrder of a u variable that is a sine
taylor_diff_sin_call ==
    /\ dec.exc = "none"
    /\ JetOrder \in 1..MaxJetOrder
    /\ JetIdx >= dec.n_eq
    /\ dec.orig[JetIdx + 1].k = "function" /\ dec.orig[JetIdx + 1].n = "sin"
    /\ dec' = JetWrite("taylor_diff_sin",
                       taylor_diff_sin(dec.dc, dec.orig[JetIdx + 1], JetIdx, JetOrder, JetNUVars))
    /\ UNCHANGED <<sys, int_vars>>

\* the derivative of order JetOrder of a u variable that is a cosine
taylor_diff_cos_call ==
    /\ dec.exc = "none"
    /\ JetOrder \in 1..MaxJetOrder
    /\ JetIdx >= dec.n_eq
    /\ dec.orig[JetIdx + 1].k = "function" /\ dec.orig[JetIdx + 1].n = "cos"
    /\ dec' = JetWrite("taylor_diff_cos",
                       taylor_diff_cos(dec.dc, dec.orig[JetIdx + 1], JetIdx, JetOrder, JetNUVars))
    /\ UNCHANGED <<sys, int_vars>>

\* the derivative of order JetOrder of a state variable or of a u variable
\* that is a binary operator: produced by code outside math_functions.cpp,
\* any of a few values
taylor_diff_other_call ==
    /\ dec.exc = "none"
    /\ JetOrder \in 1..MaxJetOrder
    /\ JetIdx < dec.n_eq \/ dec.orig[JetIdx + 1].k # "function"
    /\ \E v \in {Q(-1, 1), Q(1, 1)} : dec' = JetWrite("taylor_diff", DiffValue(v, <<>>))
    /\ UNCHANGED <<sys, int_vars>>

NextJet ==
    \/ taylor_init_row
    \/ taylor_diff_sin_call
    \/ taylor_diff_cos_call
    \/ taylor_diff_other_call

SpecJet == InitJet /\ [][NextJet]_svars

\* ------------------------------------------------------------------------
\* The update routine built by taylor_add_estrin, store by store
\* ------------------------------------------------------------------------

\* orders, numbers of variables and batch sizes the routine is built for
MaxEstrinOrder == 3
MaxEstrinVars == 2
MaxEstrinBatch == 3
\* SIMD widths of the target: 0 is the scalar mode
VectorSizes == {0, 2}

\* one round of the Estrin scheme with the sum and the product of the
\* instructions it emits taken without the rounding of T
EstrinRoundExact(cf, h) ==
    [j \in 1..((Len(cf) + 1) \div 2) |->
        IF 2 * j > Len(cf) THEN cf[2 * j - 1]
        ELSE cf[2 * j - 1] + cf[2 * j] * h]

\* run_estrin(cf_vec, h) evaluated without rounding
RECURSIVE run_estrin_exact(_, _)
run_estrin_exact(cf, h) ==
    IF Len(cf) = 1 THEN cf[1] ELSE run_estrin_exact(EstrinRoundExact(cf, h), h * h)

\* what the routine does for one lane of one variable: the indices of the
\* loads from jet_ptr (order after order), the index of the load from h_ptr
\* and the index of the store to out_ptr.  A lane of a SIMD vector loaded at
\* ptr is the element ptr[lane], and is stored back at res_ptr[lane].
LaneStore(nvars, order, batch_size, var_idx, batch_idx) ==
    [cf |-> [o \in 1..(order + 1) |->
                (o - 1) * nvars * batch_size + var_idx * batch_size + batch_idx],
     h |-> batch_idx,
     out |-> var_idx * batch_size + batch_idx]

\* for (batch_idx = from; batch_idx < batch_size; ++batch_idx): the loop of
\* the scalar mode and the loop over the remainder of the vector mode
RECURSIVE estrin_scalar_loop(_, _, _, _, _)
estrin_scalar_loop(nvars, order, batch_size, var_idx, batch_idx) ==
    IF batch_idx < batch_size
    THEN <<LaneStore(nvars, order, batch_size, var_idx, batch_idx)>>
         \o estrin_scalar_loop(nvars, order, batch_size, var_idx, batch_idx + 1)
    ELSE <<>>

\* for (batch_idx = 0; batch_idx < n_sub_batch * vector_size; batch_idx += vector_size)
RECURSIVE estrin_vector_loop(_, _, _, _, _, _)
estrin_vector_loop(nvars, order, batch_size, vector_size, var_idx, batch_idx) ==
    IF batch_idx < (batch_size \div vector_size) * vector_size
    THEN [lane \in 1..vector_size |->
             LaneStore(nvars, order, batch_size, var_idx, batch_idx + lane - 1)]
         \o estrin_vector_loop(nvars, order, batch_size, vector_size, var_idx,
                               batch_idx + vector_size)
    ELSE <<>>

\* a vector mode without the loop over the remainder
estrin_var_body_no_remainder(nvars, order, batch_size, vector_size, var_idx) ==
    IF vector_size = 0 THEN estrin_scalar_loop(nvars, order, batch_size, var_idx, 0)
    ELSE estrin_vector_loop(nvars, order, batch_size, vector_size, var_idx, 0)

\* the body of the loop over var_idx
estrin_var_body(nvars, order, batch_size, vector_size, var_idx) ==
    IF vector_size = 0 THEN estrin_scalar_loop(nvars, order, batch_size, var_idx, 0)
    ELSE estrin_vector_loop(nvars, order, batch_size, vector_size, var_idx, 0)
         \o estrin_scalar_loop(nvars, order, batch_size, var_idx,
                               (batch_size \div vector_size) * vector_size)

\* for (var_idx = 0; var_idx < nvars; ++var_idx)
RECURSIVE estrin_var_loop(_, _, _, _, _)
estrin_var_loop(nvars, order, batch_size, vector_size, var_idx) ==
    IF var_idx < nvars
    THEN estrin_var_body(nvars, order, batch_size, vector_size, var_idx)
         \o estrin_var_loop(nvars, order, batch_size, vector_size, var_idx + 1)
    ELSE <<>>

\* the stores of the routine taylor_add_estrin builds, in program order,
\* each with the value run_estrin leaves for its loads
estrin_routine(nvars, order, batch_size, vector_size, jet, h) ==
    LET st == estrin_var_loop(nvars, order, batch_size, vector_size, 0)
    IN  [i \in 1..Len(st) |->
            [cf |-> st[i].cf, h |-> st[i].h, out |-> st[i].out,
             v |-> run_estrin_exact([o \in 1..Len(st[i].cf) |-> jet[st[i].cf[o] + 1]],
                                    h[st[i].h + 1])]]

\* jets and timesteps the routine is run on: every slot of a jet holds a
\* value of its own
EstrinJets(n) == {[i \in 1..n |-> i], [i \in 1..n |-> 2 - i]}
EstrinSteps(n) == {[i \in 1..n |-> i + 1], [i \in 1..n |-> i - 3]}

InitEstrin ==
    /\ NoIntegrator
    /\ sys = <<>>
    /\ dec = NoDec

\* a routine is built and run once: dec.vars holds what it was built for,
\* dec.orig the jet, dec.pre the timesteps, dec.dc the stores
estrin_call ==
    /\ \E nvars \in 1..MaxEstrinVars, order \in 0..MaxEstrinOrder,
          batch_size \in 1..MaxEstrinBatch, vector_size \in VectorSizes :
          \E jet \in EstrinJets((order + 1) * nvars * batch_size), h \in EstrinSteps(batch_size) :
             dec' = [NoDec EXCEPT !.op = "taylor_add_estrin",
                                  !.vars = <<nvars, order, batch_size, vector_size>>,
                                  !.orig = jet, !.pre = h,
                                  !.dc = estrin_routine(nvars, order, batch_size, vector_size, jet, h)]
    /\ UNCHANGED <<sys, int_vars>>

NextEstrin == estrin_call

SpecEstrin == InitEstrin /\ [][NextEstrin]_svars

\* ------------------------------------------------------------------------
\* Properties of the scalar stepper
\* ------------------------------------------------------------------------

OkOutcomes == {"success", "time_limit"}
StepOps == {"step", "step_backward", "step_max_delta_t"}

\* a transition in which step_impl ran
StepImplRan == last'.seq # last.seq

\* C1: a step that returns err_nf_state, err_nf_derivative or err_nan_rho leaves
\* the state and the time as they were, and its step size and its order are 0
C1_ErrorStepChangesNothing ==
    [][(StepImplRan /\ last'.oc \in ErrOutcomes)
          => /\ m_state' = m_state
             /\ m_time' = m_time
             /\ last'.h = 0
             /\ last'.order = 0
             /\ (ret'.op \in StepOps
                    => ret'.oc = last'.oc /\ ret'.h = 0 /\ ret'.order = 0)]_svars

\* a step failed on the derivatives after the time had been moved away from 0
C1_Witness ==
    /\ ret.op \in StepOps
    /\ ret.oc = "err_nf_derivative"
    /\ m_time # 0
    /\ ret.h = 0

\* C2: after a step with Success or TimeLimit the time is the time before plus the
\* returned step, rounded in T; after an Err* step it is the time before
C2_TimeAdvancesByReturnedStep ==
    [][StepImplRan
          => IF last'.oc \in OkOutcomes
             THEN m_time' = Add(m_time, last'.h) /\ (ret'.op \in StepOps => ret'.h = last'.h)
             ELSE m_time' = m_time]_svars

\* a clamped step that moved a finite time
C2_Witness ==
    /\ ret.op = "step_max_delta_t"
    /\ ret.oc = "time_limit"
    /\ ret.h # 0
    /\ isfinite(m_time)
    /\ m_time # 0

\* C3: for a step with Success or TimeLimit, |h| <= |max_delta_t|, h has the sign of
\* max_delta_t, and the outcome is TimeLimit exactly when the deduced step
\* min(rho_o, rho_om1) * rhofac is greater than |max_delta_t|, with |h| = |max_delta_t|
C3_ClampAndSign ==
    last.oc \in OkOutcomes
        => /\ Le(abs(last.h), abs(last.max_delta_t))
           /\ (Ge(last.max_delta_t, 0) => Ge(last.h, 0))
           /\ (Lt(last.max_delta_t, 0) => Le(last.h, 0))
           /\ (last.oc = "time_limit" <=> Gt(last.h_ded, abs(last.max_delta_t)))
           /\ (last.oc = "time_limit" => abs(last.h) = abs(last.max_delta_t))
           /\ (last.oc = "success" => abs(last.h) = last.h_ded)

\* a backward step clamped to a finite limit
C3_Witness ==
    /\ last.oc = "time_limit"
    /\ last.max_delta_t = -One
    /\ last.h = -One
    /\ Gt(last.h_ded, One)

\* C8: once a step has returned err_nf_state, every later step returns it too and
\* leaves state and time alone, until set_state replaces the state
C8_NonFiniteStatePersists ==
    [][(nf_seen > 0 /\ StepImplRan)
          => /\ last'.oc = "err_nf_state"
             /\ m_state' = m_state
             /\ m_time' = m_time]_svars

\* a second step in a row found the state non-finite
C8_Witness ==
    /\ nf_seen = 2
    /\ ret.oc = "err_nf_state"
    /\ \E i \in 1..NVars : ~isfinite(m_state[i])

\* the largest |x| of a state whose entries are all finite
MaxAbsOf(st) == SetMax({abs(st[i]) : i \in 1..Len(st)})

\* C9: a step uses order_a when rtol * max|state| <= atol and order_r otherwise, and
\* the jet routine and the update routine it calls are the ones built for that order
C9_RegimeSelectsOrderAndRoutines ==
    [][(StepImplRan /\ last'.oc \in OkOutcomes)
          => LET order == IF Le(Mul(m_rtol, MaxAbsOf(m_state)), m_atol)
                          THEN m_order_a ELSE m_order_r
             IN  /\ last'.order = order
                 /\ last'.jet_f.order = order
                 /\ last'.update_f.order = order
                 /\ last'.use_abs_tol = Le(Mul(m_rtol, MaxAbsOf(m_state)), m_atol)]_svars

\* a step in the absolute regime of an integrator whose two orders differ
C9_Witness ==
    /\ last.oc = "success"
    /\ last.use_abs_tol
    /\ m_order_a # m_order_r
    /\ last.order = m_order_a
    /\ last.update_f.name = "estrin_a"

\* ------------------------------------------------------------------------
\* Properties of propagate_until and propagate_for
\* ------------------------------------------------------------------------

PropOps == {"propagate_until", "propagate_for"}

\* the last propagate call has returned a tuple: hist holds its steps
Returned == pc = "idle" /\ ret.op \in PropOps /\ ret.exc = "none"

\* hist holds the steps of a propagate call, running or returned
InProp == pc # "idle" \/ Returned

\* the time before the i-th step of the call
TimeBefore(i) == IF i = 1 THEN prop.t0 ELSE hist[i - 1].time

\* strictly short of the target, in the direction of the propagation
Short(tm) == IF prop.fwd THEN Lt(tm, prop.t) ELSE Gt(tm, prop.t)

OkSteps == {i \in 1..Len(hist) : hist[i].oc \in OkOutcomes}

\* C4: the call returns StepLimit exactly when max_steps # 0 and the max_steps-th
\* step left the time strictly short of the target; n_steps <= max_steps then;
\* max_steps = 0 never gives StepLimit; a max_steps-th step that reaches the
\* target gives TimeLimit
C4_StepLimit ==
    Returned
        => LET n == Len(hist)
               k == prop.max_steps
           IN  /\ (ret.oc = "step_limit")
                     <=> (k # 0 /\ n >= k /\ (\A i \in 1..k : hist[i].oc \in OkOutcomes)
                            /\ Short(hist[k].time))
               /\ (k # 0 => ret.n_steps <= k)
               /\ (k = 0 => ret.oc # "step_limit")
               /\ ((k # 0 /\ n >= k /\ hist[k].oc \in OkOutcomes /\ ~Short(hist[k].time))
                      => ret.oc = "time_limit" /\ ret.n_steps = k)

\* a call stopped by its step limit, short of the target
C4_Witness ==
    /\ Returned
    /\ ret.oc = "step_limit"
    /\ prop.max_steps = 2
    /\ ret.n_steps = 2
    /\ Short(m_time)

\* C5 as stated: no step of a propagation takes the time past the target, and a
\* call that returns TimeLimit leaves the time equal to the target
C5_NeverOvershoots ==
    InProp
        => /\ \A i \in OkSteps :
                 IF prop.fwd THEN Le(hist[i].time, prop.t) ELSE Ge(hist[i].time, prop.t)
           /\ ((Returned /\ ret.oc = "time_limit") => m_time = prop.t)

\* C5: every step of a propagation is bounded by the time left, t - time, as T
\* computes it, so it ends no further than time + (t - time) rounded in T; every
\* step but the last leaves the time strictly short of t, and a call returning
\* TimeLimit after a step leaves the time at t or beyond it by that rounding. A
\* call with t equal to the time returns TimeLimit with n_steps = 0, runs no step,
\* and changes neither the state nor the time
C5_StepsBoundedByTimeLeft ==
    /\ [](InProp
            => /\ \A i \in OkSteps :
                     LET left == Sub(prop.t, TimeBefore(i))
                     IN  /\ IF prop.fwd
                            THEN /\ Ge(hist[i].h, 0) /\ Le(hist[i].h, left)
                                 /\ Le(hist[i].time, Add(TimeBefore(i), left))
                            ELSE /\ Le(hist[i].h, 0) /\ Ge(hist[i].h, left)
                                 /\ Ge(hist[i].time, Add(TimeBefore(i), left))
                         /\ (i < Len(hist) => Short(hist[i].time))
               /\ ((Returned /\ ret.oc = "time_limit" /\ hist # <<>>) => ~Short(m_time))
               /\ ((Returned /\ ret.oc = "time_limit" /\ ret.n_steps = 0)
                      => hist = <<>> /\ prop.t = prop.t0 /\ m_time = prop.t))
    /\ [][(/\ calls' # calls
           /\ (pc' # "idle" \/ (ret'.op \in PropOps /\ ret'.exc = "none"))
           /\ prop'.t = m_time)
             => /\ pc' = "idle"
                /\ ret'.oc = "time_limit"
                /\ ret'.n_steps = 0
                /\ ~StepImplRan
                /\ m_state' = m_state
                /\ m_time' = m_time]_svars

\* a call that returned TimeLimit with the time beyond its target
C5_Witness ==
    /\ Returned
    /\ ret.oc = "time_limit"
    /\ hist # <<>>
    /\ m_time # prop.t
    /\ ~Short(m_time)

\* C6: a step that fails inside a propagation ends the call with its outcome; the
\* counts and the extrema returned are those of the steps completed before it, and
\* the state and the time are as the last completed step left them
C6_ErrorEndsPropagation ==
    /\ []((Returned /\ ret.oc \in ErrOutcomes)
            => LET n == Len(hist)
                   done == 1..(n - 1)
               IN  /\ n >= 1
                   /\ hist[n].oc = ret.oc
                   /\ \A i \in done : hist[i].oc \in OkOutcomes
                   /\ ret.n_steps = n - 1
                   /\ ret.min_order = SetMin({hist[i].order : i \in done} \cup {uint32_max})
                   /\ ret.max_order = SetMax({hist[i].order : i \in done} \cup {0})
                   /\ ret.min_h = SetMin({abs(hist[i].h) : i \in done} \cup {PInf})
                   /\ ret.max_h = SetMax({abs(hist[i].h) : i \in done} \cup {0})
                   /\ m_time = TimeBefore(n))
    /\ [][(pc # "idle" /\ StepImplRan /\ last'.oc \in ErrOutcomes)
             => /\ pc' = "idle"
                /\ ret'.oc = last'.oc
                /\ m_state' = m_state
                /\ m_time' = m_time]_svars

\* a propagation that failed after a completed step
C6_Witness ==
    /\ Returned
    /\ ret.oc = "err_nf_derivative"
    /\ ret.n_steps >= 1
    /\ isfinite(ret.min_h)

\* the steps whose |h| enters min_h/max_h: those that left the time short of the target
CountedSteps == {i \in OkSteps : Short(hist[i].time)}

\* C7 as stated: min_h and max_h are the extrema of |h| over exactly the steps
\* with outcome Success
C7_ExtremaOverSuccessSteps ==
    Returned
        => LET hs == {abs(hist[i].h) : i \in {j \in OkSteps : hist[j].oc = "success"}}
           IN  /\ ret.min_h = SetMin(hs \cup {PInf})
               /\ ret.max_h = SetMax(hs \cup {0})

\* C7: min_h and max_h are the extrema of |h| over exactly the steps after which
\* the time was still strictly short of the target, starting from +inf and 0;
\* min_order, max_order and n_steps range over every step with Success or TimeLimit
C7_ExtremaOverStepsShortOfTarget ==
    Returned
        => LET hs == {abs(hist[i].h) : i \in CountedSteps}
               os == {hist[i].order : i \in OkSteps}
           IN  /\ ret.min_h = SetMin(hs \cup {PInf})
               /\ ret.max_h = SetMax(hs \cup {0})
               /\ ret.min_order = SetMin(os \cup {uint32_max})
               /\ ret.max_order = SetMax(os \cup {0})
               /\ ret.n_steps = Cardinality(OkSteps)

\* a call that ended on a Success step reaching the target, after an earlier step
C7_Witness ==
    /\ Returned
    /\ ret.oc = "time_limit"
    /\ ret.n_steps >= 2
    /\ hist[Len(hist)].oc = "success"
    /\ isfinite(ret.min_h)

\* ------------------------------------------------------------------------
\* Properties of the batch stepper
\* ------------------------------------------------------------------------

BatchStepOps == {"batch_step", "batch_step_backward", "batch_step_impl"}

\* a transition in which the batch step_impl ran
BatchStepImplRan == calls' # calls /\ ret'.op \in BatchStepOps

\* the entries of batch element b in a states vector
LaneOf(states, b) == [i \in 1..NVars |-> states[(i - 1) * BatchSize + b]]

\* C10: a batch element whose outcome is an error keeps its state and its time
\* through the step, and its recorded step and order are 0
C10_ErrorLaneUnchanged ==
    [][BatchStepImplRan
          => \A b \in Lanes :
                res'[b].oc \in ErrOutcomes
                   => /\ LaneOf(m_states', b) = LaneOf(m_states, b)
                      /\ m_times'[b] = m_times[b]
                      /\ res'[b].h = 0
                      /\ res'[b].order = 0]_svars

\* a batch element that failed on its derivatives and whose state the step made NaN
C10_Witness ==
    /\ ret.op \in BatchStepOps
    /\ \E b \in Lanes :
          /\ res[b].oc = "err_nf_derivative"
          /\ res[b].h = 0
          /\ \E i \in 1..NVars : isnan(LaneOf(m_states, b)[i])

\* the order of the regime of batch element b of a states vector with finite entries
LaneOrder(states, b) ==
    IF Le(Mul(m_rtol, MaxAbsOf(LaneOf(states, b))), m_atol) THEN m_order_a ELSE m_order_r

LaneRows(rows, b, order) ==
    [k \in 1..(order * NVars) |->
        rows[((k - 1) \div NVars) * NVars * BatchSize + ((k - 1) % NVars) * BatchSize + b]]

\* one step of a scalar integrator with the batch integrator's tolerances, started
\* from the state and time of batch element b, the derivatives being those in rows
ScalarStepOf(b, max_delta_t, rows) ==
    step_impl(LaneOf(m_states, b), m_times[b], m_rtol, m_atol, m_order_r, m_order_a,
              max_delta_t,
              LaneRows(rows, b, step_jet_f(LaneOf(m_states, b), m_rtol, m_atol,
                                           m_order_r, m_order_a).order))

\* the max_delta_ts of the step or step_backward that was taken
BatchStepArg == IF ret'.op = "batch_step" THEN PInf ELSE MInf

\* the batch step that was taken is step_impl with the jet function writing rows
BatchStepTook(rows, n) ==
    batch_step_impl(m_states, m_times, m_order_r, m_order_a,
                    [b \in Lanes |-> BatchStepArg], rows, n)
       = [res |-> res', states |-> m_states', times |-> m_times',
          max_order |-> n.max_order, m_h |-> IF n.max_order = 0 THEN <<>> ELSE m_h',
          oob |-> FALSE]

\* batch element b has the outcome, timestep, order and new time of the scalar step s
LaneResultOf(b, s) ==
    /\ res'[b] = [oc |-> s.oc, h |-> s.h, order |-> s.order]
    /\ m_times'[b] = s.time

\* the new state of batch element b is the polynomial of the max order in the
\* timestep of the scalar step s
LaneStateAtMaxOrder(b, s, rows, max_order) ==
    LaneOf(m_states', b)
       = taylor_add_estrin(NVars, max_order, 1,
                           LaneOf(m_states, b) \o LaneRows(rows, b, max_order), <<s.h>>)

C13_VectorSizes ==
    /\ Len(m_states) = NVars * BatchSize
    /\ Len(m_times) = BatchSize

\* a step wrote the time of a batch element past the end of the times vector
C13_Witness ==
    /\ ret.op \in {"batch_step", "batch_step_backward"}
    /\ \E b \in Lanes : res[b].oc = "success" /\ b > Len(m_times)

\* ------------------------------------------------------------------------
\* Properties of the decomposition
\* ------------------------------------------------------------------------

DecOps == {"taylor_decompose", "taylor_decompose_pairs"}

\* the last call was a taylor_decompose that returned a decomposition
Decomposed == dec.op \in DecOps /\ dec.exc = "none"

\* C14: in the decomposition a taylor_decompose returns, before and after the
\* simplification, substituting each u_i by its expanded definition in the last n
\* entries gives expressions structurally equal to the original right-hand sides
C14_RoundTrip ==
    Decomposed
       => /\ verify_taylor_dec_subs(dec.orig, dec.pre)
          /\ verify_taylor_dec_subs(dec.orig, dec.dc)

\* a decomposition of a system with a state variable named u_0, returned by a build
\* without assertions, on which an assertion of verify_taylor_dec fails
C14_Witness ==
    /\ Decomposed
    /\ dec.assert_failed
    /\ \E i \in 1..Len(dec.vars) : dec.vars[i] \in UNames
    /\ verify_taylor_dec_form(dec.n_eq, dec.dc)

\* C15: a returned decomposition of n equations has at least 2n entries; the first n
\* are the state variables (sorted by name when they are deduced, in the order of the
\* left-hand sides otherwise); an entry i between them and the last n mentions only
\* variables u_j with j < i; each of the last n is a number or a variable u_j, j < i
C15_Shape ==
    Decomposed
       => /\ Len(dec.dc) >= 2 * dec.n_eq
          /\ \A i \in 1..dec.n_eq : dec.dc[i] = variable(dec.vars[i])
          /\ dec.op = "taylor_decompose"
                => dec.vars = SortedNames(UNION {VariablesOf(dec.orig[i]) : i \in 1..dec.n_eq}, 1)
          /\ dec.op = "taylor_decompose_pairs"
                => dec.vars = [i \in 1..dec.n_eq |-> sys[i][1].n]
          /\ \A i \in dec.n_eq..(Len(dec.dc) - dec.n_eq - 1) :
                \A var \in VariablesOf(dec.dc[i + 1]) :
                   var \in UNames /\ uname_to_index(var) < i
          /\ \A i \in (Len(dec.dc) - dec.n_eq)..(Len(dec.dc) - 1) :
                \/ dec.dc[i + 1].k = "number"
                \/ /\ dec.dc[i + 1].k = "variable"
                   /\ dec.dc[i + 1].n \in UNames
                   /\ uname_to_index(dec.dc[i + 1].n) < i

\* a decomposition of two equations given as pairs, the left-hand sides not in the
\* order of their names, with entries between the first and the last two
C15_Witness ==
    /\ Decomposed
    /\ dec.op = "taylor_decompose_pairs"
    /\ dec.n_eq = 2
    /\ dec.vars = <<"x", "s">>
    /\ Len(dec.dc) > 5
    /\ \E i \in (Len(dec.dc) - 1)..Len(dec.dc) : dec.dc[i].k = "number"
    /\ \E i \in (Len(dec.dc) - 1)..Len(dec.dc) : dec.dc[i].k = "variable"

\* the entries of a decomposition between the first and the last n_eq, as indices
\* counted from 0
Middle(dc, n_eq) == n_eq..(Len(dc) - n_eq - 1)

\* the index in dc of the entry that entry i of pre became or was merged into: the
\* first entry of pre equal to it once both are written over u_0 .. u_(n-1), less the
\* number of entries before it that repeat an earlier one
SurvivorOf(i) ==
    LET subs_map == subs_map_loop(dec.pre, dec.n_eq, dec.n_eq, <<>>)
        first == CHOOSE j \in Middle(dec.pre, dec.n_eq) :
                    /\ expression_eq(subs_map[uname(j)], subs_map[uname(i)])
                    /\ \A l \in Middle(dec.pre, dec.n_eq) :
                          expression_eq(subs_map[uname(l)], subs_map[uname(i)]) => j <= l
    IN  first - Cardinality({l \in Middle(dec.pre, dec.n_eq) :
                                /\ l < first
                                /\ \E l2 \in Middle(dec.pre, dec.n_eq) :
                                      /\ l2 < l
                                      /\ expression_eq(subs_map[uname(l2)], subs_map[uname(l)])})

\* C16: after the simplification no two entries between the first and the last n are
\* structurally equal, the first n entries are those of before, the last n are still
\* n, the decomposition is not longer than before, and in the entries kept and in the
\* last n every u_i names the entry that entry i of before became or was merged into
C16_CseResult ==
    Decomposed
       => /\ \A i, j \in Middle(dec.dc, dec.n_eq) :
                i # j => ~expression_eq(dec.dc[i + 1], dec.dc[j + 1])
          /\ SubSeq(dec.dc, 1, dec.n_eq) = SubSeq(dec.pre, 1, dec.n_eq)
          /\ Len(dec.dc) <= Len(dec.pre)
          /\ Len(dec.dc) >= 2 * dec.n_eq
          /\ LET ren == [name \in {uname(i) : i \in Middle(dec.pre, dec.n_eq)} |->
                           uname(SurvivorOf(uname_to_index(name)))]
             IN  /\ \A i \in Middle(dec.pre, dec.n_eq) :
                       expression_eq(dec.dc[SurvivorOf(i) + 1],
                                     rename_variables(dec.pre[i + 1], ren))
                 /\ \A k \in 1..dec.n_eq :
                       expression_eq(dec.dc[Len(dec.dc) - dec.n_eq + k],
                                     rename_variables(dec.pre[Len(dec.pre) - dec.n_eq + k], ren))

\* a simplification that dropped entries, after which a kept entry and one of the last
\* n name an entry by an index that is not the one it had before
C16_Witness ==
    /\ Decomposed
    /\ Len(dec.dc) < Len(dec.pre)
    /\ \E i \in Middle(dec.dc, dec.n_eq) :
          \A j \in Middle(dec.pre, dec.n_eq) : ~expression_eq(dec.dc[i + 1], dec.pre[j + 1])
    /\ \E k \in 1..dec.n_eq :
          dec.dc[Len(dec.dc) - dec.n_eq + k] # dec.pre[Len(dec.pre) - dec.n_eq + k]

\* the variables of the right-hand sides of a system of pairs
RhsVars(s) == UNION {VariablesOf(s[i][2]) : i \in 1..Len(s)}

\* the systems listed as rejected by the overload deducing the variables
DeduceInvalid(s) == Len(s) = 0 \/ Cardinality(RhsVars(s)) # Len(s)

\* the systems listed as rejected by the overload taking pairs
PairsInvalid(s) ==
    \/ Len(s) = 0
    \/ \E i \in 1..Len(s) : s[i][1].k # "variable"
    \/ \E i, j \in 1..Len(s) : i # j /\ s[i][1] = s[j][1]
    \/ \E var \in RhsVars(s) : \A i \in 1..Len(s) : s[i][1] # variable(var)

\* an expression holding a function that has no taylor_decompose_f, or a sine or
\* cosine that has not one argument
RECURSIVE Undecomposable(_)
Undecomposable(ex) ==
    \/ /\ ex.k = "function"
       /\ \/ ex.f.cb["taylor_decompose_f"] = ""
          \/ ex.f.cb["taylor_decompose_f"] \in {"sin", "cos"} /\ Len(ex.a) # 1
    \/ \E i \in 1..Len(ex.a) : Undecomposable(ex.a[i])

\* C17 as stated: taylor_decompose throws for the empty system, for a number of
\* deduced variables other than the number of equations, for a left-hand side that
\* is no variable or is repeated, for a right-hand side variable on no left-hand
\* side, and for no other system
C17_RejectsExactly ==
    /\ dec.op = "taylor_decompose" => (dec.exc = "invalid_argument" <=> DeduceInvalid(sys))
    /\ dec.op = "taylor_decompose_pairs" => (dec.exc = "invalid_argument" <=> PairsInvalid(sys))
    /\ dec.op \in DecOps /\ dec.exc # "none" => dec.dc = <<>>

\* C17: taylor_decompose throws for the systems listed above and for those with a
\* function that cannot be decomposed (no taylor_decompose_f, or a sine or cosine
\* that has not one argument), and for no other system
C17_RejectsAlsoUndecomposable ==
    /\ dec.op = "taylor_decompose"
          => (dec.exc = "invalid_argument"
                 <=> DeduceInvalid(sys) \/ \E i \in 1..Len(sys) : Undecomposable(sys[i][2]))
    /\ dec.op = "taylor_decompose_pairs"
          => (dec.exc = "invalid_argument"
                 <=> PairsInvalid(sys) \/ \E i \in 1..Len(sys) : Undecomposable(sys[i][2]))
    /\ dec.op \in DecOps /\ dec.exc # "none" => dec.dc = <<>>

\* a system of pairs that was decomposed although one of its left-hand side variables
\* is in no right-hand side
C17_Witness ==
    /\ Decomposed
    /\ dec.op = "taylor_decompose_pairs"
    /\ \E i \in 1..Len(sys) : sys[i][1].n \notin RhsVars(sys)

\* entry i of a decomposition is a call of the function with this display name
IsCall(dc, i, name) == dc[i + 1].k = "function" /\ dc[i + 1].n = name

\* C18: in a decomposition taylor_decompose returns, a middle entry sin(v) at index k
\* has cos(v) at index k + 1 and a middle entry cos(v) at index k has sin(v) at
\* index k - 1, with the same argument v
C18_CompanionAdjacency ==
    Decomposed
       => \A k \in Middle(dec.dc, dec.n_eq) :
             /\ IsCall(dec.dc, k, "sin")
                   => /\ k + 1 \in Middle(dec.dc, dec.n_eq)
                      /\ expression_eq(dec.dc[k + 2], cos(dec.dc[k + 1].a[1]))
             /\ IsCall(dec.dc, k, "cos")
                   => /\ k - 1 \in Middle(dec.dc, dec.n_eq)
                      /\ expression_eq(dec.dc[k], sin(dec.dc[k + 1].a[1]))

\* a decomposition in which the simplification merged the pair emitted for a sine
\* with the pair emitted for a cosine of the same argument, and kept another pair
C18_Witness ==
    /\ Decomposed
    /\ \E i, j \in Middle(dec.pre, dec.n_eq) :
          /\ i + 1 < j
          /\ IsCall(dec.pre, i, "sin")
          /\ IsCall(dec.pre, j, "cos")
          /\ expression_eq(dec.pre[i + 1].a[1], dec.pre[j + 1].a[1])
    /\ Cardinality({k \in Middle(dec.dc, dec.n_eq) : IsCall(dec.dc, k, "sin")}) = 2
    /\ Cardinality({k \in Middle(dec.pre, dec.n_eq) : IsCall(dec.pre, k, "sin")}) > 2

\* the indices of the entries of a decomposition that call the function or operator
\* with this name
CallsOf(dc, name) == {i \in 0..(Len(dc) - 1) : dc[i + 1].k # "variable" /\ dc[i + 1].n = name}

\* C19: the decomposition of the system x' = exp(-square(x + y)) + erf(x + y), y' = x
\* has exactly 10 entries: the sum x + y, the square, the negation and the exponential
\* that the exp call and the erf call both emit are there once each
C19_ErfSharedEntries ==
    dec.op \in DecOps /\ dec.orig = [i \in 1..2 |-> ErfSystem[i][2]]
       => /\ dec.exc = "none"
          /\ Len(dec.dc) = 10
          /\ \A name \in {"square", "neg", "exp", "erf"} : Cardinality(CallsOf(dec.dc, name)) = 1
          /\ Cardinality(CallsOf(dec.dc, "+")) = 2
          /\ \E sq \in CallsOf(dec.dc, "square"), ng \in CallsOf(dec.dc, "neg"), ex \in CallsOf(dec.dc, "exp"), er \in CallsOf(dec.dc, "erf") :
                /\ dec.dc[sq + 1].a = dec.dc[er + 1].a
                /\ dec.dc[ng + 1].a = <<variable(uname(sq))>>
                /\ dec.dc[ex + 1].a = <<variable(uname(ng))>>
                /\ dec.dc[Len(dec.dc) - 1] = variable(uname(Len(dec.dc) - 3))
                /\ dec.dc[Len(dec.dc) - 2].a = <<variable(uname(ex)), variable(uname(er))>>

\* the system with erf was decomposed, and before the simplification the decomposition
\* had the entries of the exp call and those of the erf call, 14 in all
C19_Witness ==
    /\ dec.op = "taylor_decompose"
    /\ dec.exc = "none"
    /\ dec.orig = [i \in 1..2 |-> ErfSystem[i][2]]
    /\ Len(dec.pre) = 14
    /\ Cardinality(CallsOf(dec.pre, "exp")) = 2

\* ------------------------------------------------------------------------
\* Properties of the equality of functions
\* ------------------------------------------------------------------------

\* the two functions have equal display names and pairwise equal arguments
SameNameAndArgs(f1, f2) ==
    /\ f1.n = f2.n
    /\ Len(f1.a) = Len(f2.a)
    /\ \A i \in 1..Len(f1.a) : expression_eq(f1.a[i], f2.a[i])

\* the callbacks a function holds
CallbacksSet(f) == {c \in Callbacks : f.f.cb[c] # ""}

\* C20 as stated: two functions compare equal exactly when their display names are
\* equal and their arguments are pairwise structurally equal
C20_EqualIffNameAndArgs ==
    dec.op = "function_eq" => (dec.eq <=> SameNameAndArgs(dec.orig[1], dec.orig[2]))

\* C20: two functions compare equal exactly when their display names, their names
\* for double and long double, their attributes and their types are equal, their
\* arguments are pairwise structurally equal, and each callback is set in both or in
\* neither; what a callback holds and disable_verify have no influence
C20_EqualIffComparedMembers ==
    dec.op = "function_eq"
       => \A f1 \in {dec.orig[1]} : \A f2 \in {dec.orig[2]} :
             dec.eq <=> /\ SameNameAndArgs(f1, f2)
                        /\ <<f1.f.dbl_name, f1.f.ldbl_name>> = <<f2.f.dbl_name, f2.f.ldbl_name>>
                        /\ f1.f.attributes = f2.f.attributes
                        /\ f1.f.ty = f2.f.ty
                        /\ CallbacksSet(f1) = CallbacksSet(f2)

\* two functions compared equal although a callback of one is not that of the other
C20_Witness ==
    /\ dec.op = "function_eq"
    /\ dec.eq
    /\ dec.orig[1].f.cb # dec.orig[2].f.cb

\* ------------------------------------------------------------------------
\* Properties of the operations on expressions
\* ------------------------------------------------------------------------

\* the function of the last call, its arguments u and v, and their derivatives
IsCallOf(name, arity) ==
    /\ dec.orig[1].k = "function"
    /\ dec.orig[1].n = name
    /\ dec.orig[1].f.cb["diff_f"] = name
    /\ Len(dec.orig[1].a) = arity
    /\ \A i \in 1..arity : diff(dec.orig[1].a[i], dec.vars[1]).exc = "none"

ArgOf(i) == dec.orig[1].a[i]

DArgOf(i) == diff(dec.orig[1].a[i], dec.vars[1]).v

\* diff gives cos(u) * u' for sin(u), -sin(u) * u' for cos(u) and
\* v * pow(u, v - 1) * u' + pow(u, v) * log(u) * v' for pow(u, v), and throws when sin,
\* cos, log or pow has a number of arguments that is not its arity
DiffOfSinCosPow ==
    /\ IsCallOf("sin", 1) => dec.dc = <<binary_operator("*", cos(ArgOf(1)), DArgOf(1))>>
    /\ IsCallOf("cos", 1) => dec.dc = <<binary_operator("*", neg(sin(ArgOf(1))), DArgOf(1))>>
    /\ IsCallOf("pow", 2)
          => dec.dc = <<binary_operator("+",
                           binary_operator("*",
                               binary_operator("*", ArgOf(2),
                                   pow(ArgOf(1), binary_operator("-", ArgOf(2), number("1")))),
                               DArgOf(1)),
                           binary_operator("*",
                               binary_operator("*", pow(ArgOf(1), ArgOf(2)), log(ArgOf(1))),
                               DArgOf(2)))>>
    /\ \A name \in {"sin", "cos", "log", "pow"} :
          /\ dec.orig[1].k = "function"
          /\ dec.orig[1].f.cb["diff_f"] = name
          /\ Len(dec.orig[1].a) # (IF name = "pow" THEN 2 ELSE 1)
          => dec.exc = "invalid_argument" /\ dec.dc = <<>>

\* C21 as stated: the derivatives above, and u' / u for log(u), as expression trees
C21_DiffTrees ==
    dec.op = "diff"
       => /\ DiffOfSinCosPow
          /\ IsCallOf("log", 1) => dec.dc = <<binary_operator("/", DArgOf(1), ArgOf(1))>>

\* C21: the derivatives above, and (1 / u) * u' for log(u), as expression trees
C21_DiffTreesLogAsProduct ==
    dec.op = "diff"
       => /\ DiffOfSinCosPow
          /\ IsCallOf("log", 1)
                => dec.dc = <<binary_operator("*", binary_operator("/", number("1"), ArgOf(1)),
                                              DArgOf(1))>>

\* the derivative of a log whose argument is itself a function call was taken
C21_Witness ==
    /\ dec.op = "diff"
    /\ IsCallOf("log", 1)
    /\ ArgOf(1).k = "function"
    /\ dec.exc = "none"

\* an expression with a node that has no value: a variable the map does not hold, a
\* param whose index is not below n_pars, or a function without the callback cb
RECURSIVE HasNodeWithoutValue(_, _, _, _)
HasNodeWithoutValue(ex, map, n_pars, cb) ==
    \/ ex.k = "variable" /\ ex.n \notin map
    \/ ex.k = "param" /\ ex.n >= n_pars
    \/ ex.k = "function" /\ ex.f.cb[cb] = ""
    \/ \E i \in 1..Len(ex.a) : HasNodeWithoutValue(ex.a[i], map, n_pars, cb)

\* C22: eval_dbl and eval_batch_dbl throw, and return no value, when anywhere in the
\* expression there is a variable missing from the map, a param whose index is not
\* below the number of parameters, or a function without the evaluation callback
C22_EvalFailsOnNodeWithoutValue ==
    /\ dec.op = "eval_dbl" /\ HasNodeWithoutValue(dec.orig[1], dec.vars[1], dec.vars[2], "eval_dbl_f")
          => dec.exc \in {"invalid_argument", "out_of_range"} /\ dec.dc = <<>>
    /\ dec.op = "eval_batch_dbl"
          /\ HasNodeWithoutValue(dec.orig[1], dec.vars[1], dec.vars[2], "eval_batch_dbl_f")
          => dec.exc \in {"invalid_argument", "out_of_range"} /\ dec.dc = <<>>

\* an evaluation threw because of a node below a function that is below a binary
\* operator, the operator's other operand having a value
C22_Witness ==
    /\ dec.op \in {"eval_dbl", "eval_batch_dbl"}
    /\ dec.exc # "none"
    /\ dec.orig[1].k = "binary_operator"
    /\ ~HasNodeWithoutValue(dec.orig[1].a[1], dec.vars[1], dec.vars[2], dec.op \o "_f")
    /\ dec.orig[1].a[2].k = "function"
    /\ dec.orig[1].a[2].f.cb[dec.op \o "_f"] # ""
    /\ HasNodeWithoutValue(dec.orig[1].a[2].a[1], dec.vars[1], dec.vars[2], dec.op \o "_f")

\* ------------------------------------------------------------------------
\* Properties of the setters
\* ------------------------------------------------------------------------

\* a vector a setter has to refuse: not as long as the one it replaces, or not finite
Refused(v, old) == Len(v) # Len(old) \/ \E i \in 1..Len(v) : ~isfinite(v[i])

\* the setter validated v: it threw and left old as it was, or it returned with v,
\* finite, in place
Validated(v, old, new, exc) ==
    IF Refused(v, old) THEN exc = "invalid_argument" /\ new = old
    ELSE exc = "none" /\ new = v /\ \A i \in 1..Len(new) : isfinite(new[i])

\* the step is the call set_state(v) of the scalar integrator
SetStateStep(v, is_self) ==
    /\ pc = "idle"
    /\ calls < MaxCalls
    /\ calls' = calls + 1
    /\ set_state_impl(v, is_self)

\* the arguments of a setter: the vectors of args, and the integrator's own vector
SetterArgs(args, own) == {[v |-> v, self |-> FALSE] : v \in args} \cup {[v |-> own, self |-> TRUE]}

\* set_time(t) throws for a time that is not finite and sets a finite one
SetTimeValidates ==
    calls' = calls + 1 /\ ret'.op = "set_time"
       => IF ret'.exc = "none" THEN isfinite(m_time') /\ m_time' \in SetTimeArgs
          ELSE m_time' = m_time /\ \E t \in SetTimeArgs : ~isfinite(t)

\* C23 as stated: set_state, set_states and set_times validate every argument, the
\* integrator's own vector included, and set_time validates finiteness
C23_SettersValidate ==
    [][/\ \A a \in SetterArgs(StateArgs, m_state) :
             SetStateStep(a.v, a.self) => Validated(a.v, m_state, m_state', ret'.exc)
       /\ m_states # <<>>
             => /\ \A a \in SetterArgs(BatchStateArgs, m_states) :
                      \A r \in {batch_set("set_states", a.v, m_states, a.self)} :
                         Validated(a.v, m_states, r.v, r.exc)
                /\ \A a \in SetterArgs(BatchTimeArgs, m_times) :
                      \A r \in {batch_set("set_times", a.v, m_times, a.self)} :
                         Validated(a.v, m_times, r.v, r.exc)
       /\ SetTimeValidates]_svars

\* C23: set_state, set_states and set_times validate every argument that is not the
\* integrator's own vector; given that vector they return at once and leave it as
\* it is, finite or not; set_time validates finiteness
C23_SettersValidateUnlessSelf ==
    [][/\ \A a \in SetterArgs(StateArgs, m_state) :
             SetStateStep(a.v, a.self)
                => IF a.self THEN ret'.exc = "none" /\ m_state' = m_state
                   ELSE Validated(a.v, m_state, m_state', ret'.exc)
       /\ m_states # <<>>
             => /\ \A a \in SetterArgs(BatchStateArgs, m_states) :
                      \A r \in {batch_set("set_states", a.v, m_states, a.self)} :
                         IF a.self THEN r.exc = "none" /\ r.v = m_states
                         ELSE Validated(a.v, m_states, r.v, r.exc)
                /\ \A a \in SetterArgs(BatchTimeArgs, m_times) :
                      \A r \in {batch_set("set_times", a.v, m_times, a.self)} :
                         IF a.self THEN r.exc = "none" /\ r.v = m_times
                         ELSE Validated(a.v, m_times, r.v, r.exc)
       /\ SetTimeValidates]_svars

\* set_state returned normally, given the integrator's own state, which is not finite
C23_Witness ==
    /\ ret.op = "set_state_self"
    /\ ret.exc = "none"
    /\ \E i \in 1..Len(m_state) : ~isfinite(m_state[i])

\* the two expressions are the same tree: the same kind of node with the same name,
\* operator, value or index, and the same trees as operands, in the same order
RECURSIVE SameTree(_, _)
SameTree(e1, e2) ==
    /\ e1.k = e2.k
    /\ e1.n = e2.n
    /\ Len(e1.a) = Len(e2.a)
    /\ \A i \in 1..Len(e1.a) : SameTree(e1.a[i], e2.a[i])

\* C24: two binary operators compare equal exactly when they have the same operator,
\* equal left operands and equal right operands, and two expressions when they are the
\* same tree: operands are not swapped and a 0 that is added is not dropped
C24_StructuralEquality ==
    dec.op = "operator=="
       => /\ dec.eq <=> SameTree(dec.orig[1], dec.orig[2])
          /\ dec.orig[1].k = "binary_operator" /\ dec.orig[2].k = "binary_operator"
                => (dec.eq <=> /\ dec.orig[1].n = dec.orig[2].n
                               /\ expression_eq(dec.orig[1].a[1], dec.orig[2].a[1])
                               /\ expression_eq(dec.orig[1].a[2], dec.orig[2].a[2]))
          /\ dec.orig[1].k = "binary_operator" /\ SameTree(dec.orig[1].a[1], dec.orig[2])
                => ~dec.eq

\* a sum and the sum of its operands swapped were compared, and found different
C24_Witness ==
    /\ dec.op = "operator=="
    /\ ~dec.eq
    /\ dec.orig[1].k = "binary_operator"
    /\ dec.orig[2].k = "binary_operator"
    /\ dec.orig[1].n = "+"
    /\ dec.orig[2].n = "+"
    /\ SameTree(dec.orig[1].a[1], dec.orig[2].a[2])
    /\ SameTree(dec.orig[1].a[2], dec.orig[2].a[1])

\* the number of nodes of an expression
RECURSIVE Size(_)
Size(ex) == IF ex.a = <<>> THEN 1 ELSE 1 + Size(ex.a[1]) + Size([ex EXCEPT !.a = Tail(ex.a)]) - 1

\* the id, in depth-first pre-order, of argument k of the node whose id is i
ChildId(ex, i, k) == IF k = 1 THEN i + 1 ELSE i + Size([ex EXCEPT !.a = SubSeq(ex.a, 1, k - 1)])

\* the node with id i in depth-first pre-order, the root having id root
RECURSIVE NodeAt(_, _, _)
NodeAt(ex, root, i) ==
    IF i = root THEN ex
    ELSE LET k == CHOOSE k \in 1..Len(ex.a) :
                     /\ ChildId(ex, root, k) <= i
                     /\ i < ChildId(ex, root, k) + Size(ex.a[k])
         IN  NodeAt(ex.a[k], ChildId(ex, root, k), i)

\* C25: compute_connections returns one entry for each node; with the nodes numbered
\* from 0 in depth-first pre-order, entry i holds the ids of the arguments of node i
\* in their order, each above i, and is empty for a number, a variable and a param
C25_ConnectionsPreOrder ==
    dec.op = "compute_connections"
       => \A nc \in {dec.dc[1]} :
             /\ Len(nc) = Size(dec.orig[1])
             /\ \A i \in 0..(Len(nc) - 1) :
                   \A node \in {NodeAt(dec.orig[1], 0, i)} :
                      /\ nc[i + 1] = [k \in 1..Len(node.a) |-> ChildId(node, i, k)]
                      /\ \A k \in 1..Len(nc[i + 1]) : nc[i + 1][k] > i /\ nc[i + 1][k] < Len(nc)
                      /\ node.k \in {"number", "variable", "param"} => nc[i + 1] = <<>>

\* the connections of the tree of the test, (x * (x * y)) + 2, were computed:
\* 7 entries, the first of them <<1, 6>>
C25_Witness ==
    /\ dec.op = "compute_connections"
    /\ Len(dec.dc[1]) = 7
    /\ dec.dc[1][1] = <<1, 6>>
    /\ dec.dc[1][2] = <<2, 3>>
    /\ dec.dc[1][4] = <<4, 5>>

\* ------------------------------------------------------------------------
\* Properties of the Taylor derivatives of sine and cosine
\* ------------------------------------------------------------------------

\* the coefficient of order o of the u variable c in the jet
JetAt(o, c) == dec.dc[o * JetNUVars + c + 1]

\* term[1] + ... + term[n]
RECURSIVE QSum(_, _)
QSum(term, n) == IF n = 0 THEN Q(0, 1) ELSE FAdd(QSum(term, n - 1), term[n])

\* (1/n) * sum over j = 1..n of j * jet[j][a] * jet[n-j][c]
Recurrence(n, a, c) ==
    FMul(Q(1, n), QSum([j \in 1..n |-> FMul(FMul(Q(j, 1), JetAt(j, a)), JetAt(n - j, c))], n))

\* the <<order, u variable>> pairs of the loads at the positions parity,
\* parity + 2, ... of the loads of the last call
LoadsAt(parity) ==
    {<<dec.pre[i] \div JetNUVars, dec.pre[i] % JetNUVars>> :
        i \in {i \in 1..Len(dec.pre) : i % 2 = parity}}

\* C27: the derivative of order n >= 1 of u_k = sin(u_a) is
\* (1/n) * sum over j = 1..n of j * jet[j][a] * jet[n-j][k+1], that of
\* u_k = cos(u_a) is the negation of the same sum over column k-1; the
\* companion column (the cosine, respectively the sine, of the same
\* argument) is loaded at the orders 0..n-1 only and the column a < k at the
\* orders 1..n only, all of them slots written before; with a number as
\* argument the derivative is 0 and nothing is loaded.
C27_SinCosRecurrence ==
    dec.op \in {"taylor_diff_sin", "taylor_diff_cos"} =>
        LET k == dec.vars[1]
            n == dec.vars[2]
            arg == dec.orig[k + 1].a[1]
            is_sin == dec.op = "taylor_diff_sin"
            c == IF is_sin THEN k + 1 ELSE k - 1
            v == dec.dc[Len(dec.dc)]
        IN  /\ dec.exc = "none"
            /\ n >= 1
            /\ Len(dec.dc) = n * JetNUVars + k + 1
            /\ arg.k = "number" => v = Q(0, 1) /\ dec.pre = <<>>
            /\ arg.k = "variable" =>
                  LET a == uname_to_index(arg.n)
                  IN  /\ a < k
                      /\ dec.orig[c + 1].k = "function"
                      /\ dec.orig[c + 1].n = (IF is_sin THEN "cos" ELSE "sin")
                      /\ dec.orig[c + 1].a = <<arg>>
                      /\ v = (IF is_sin THEN Recurrence(n, a, c) ELSE FNeg(Recurrence(n, a, c)))
                      /\ LoadsAt(1) = {<<o, c>> : o \in 0..(n - 1)}
                      /\ LoadsAt(0) = {<<o, a>> : o \in 1..n}
                      /\ \A i \in 1..Len(dec.pre) : dec.pre[i] < n * JetNUVars + k

\* the cosine of a variable got a derivative of order 2 or more that is not 0
C27_Witness ==
    /\ dec.op = "taylor_diff_cos"
    /\ dec.vars[2] >= 2
    /\ dec.orig[dec.vars[1] + 1].a[1].k = "variable"
    /\ dec.dc[Len(dec.dc)].p # 0
    /\ Len(dec.pre) = 2 * dec.vars[2]

\* ------------------------------------------------------------------------
\* Properties of the update routine
\* ------------------------------------------------------------------------

\* c_0 + c_1 * h + ... + c_N * h^N for the coefficients cf = <<c_0, ..., c_N>>
RECURSIVE PolyValue(_, _, _)
PolyValue(cf, h, i) == IF i > Len(cf) THEN 0 ELSE cf[i] * IPow(h, i - 1) + PolyValue(cf, h, i + 1)

\* C28: the routine built for (nvars, order, batch_size) stores exactly
\* once to out[v * batch_size + b] for every variable v and lane b, and
\* nowhere else; what it stores there is the value of run_estrin for the
\* coefficients jet[o * nvars * batch_size + v * batch_size + b], o = 0..order,
\* and the step h[b], which is the sum of c_o * h^o; in the scalar mode and
\* in the vector mode with its remainder of lanes, for lists of every length
\* from 1 on.
C28_EstrinIsPolynomial ==
    dec.op = "taylor_add_estrin" =>
        LET nvars == dec.vars[1]
            order == dec.vars[2]
            batch_size == dec.vars[3]
            jet == dec.orig
            h == dec.pre
            stores == dec.dc
        IN  /\ \A v \in 0..(nvars - 1), b \in 0..(batch_size - 1) :
                  \E i \in 1..Len(stores) :
                     /\ stores[i].out = v * batch_size + b
                     /\ \A j \in 1..Len(stores) : stores[j].out = stores[i].out => j = i
                     /\ stores[i].h = b
                     /\ stores[i].cf = [o \in 1..(order + 1) |->
                                           (o - 1) * nvars * batch_size + v * batch_size + b]
                     /\ stores[i].v = PolyValue([o \in 1..(order + 1) |->
                                                    jet[(o - 1) * nvars * batch_size
                                                        + v * batch_size + b + 1]],
                                                h[b + 1], 1)
            /\ \A i \in 1..Len(stores) : stores[i].out \in 0..(nvars * batch_size - 1)
            /\ \A i \in 1..Len(stores), o \in 1..(order + 1) :
                  stores[i].cf[o] \in 0..(Len(jet) - 1)

\* a routine of the vector mode with a remainder of one lane evaluated
\* polynomials of three coefficients
C28_Witness ==
    /\ dec.op = "taylor_add_estrin"
    /\ dec.vars = <<2, 2, 3, 2>>
    /\ Len(dec.dc) = 6
    /\ \E i \in 1..Len(dec.dc) : dec.dc[i].v # dec.orig[dec.dc[i].cf[1] + 1]

\* ------------------------------------------------------------------------
\* Properties of the orders and of the buffers sized by the constructors
\* ------------------------------------------------------------------------

\* the integrator is a batch integrator
IsBatch == m_states # <<>>
\* its batch size (1 for the scalar integrator) and its number of variables
BatchOf == IF IsBatch THEN BatchSize ELSE 1
NVarsOf == IF IsBatch THEN Len(m_states) \div BatchSize ELSE Len(m_state)

\* the orders recorded by the successful steps of the last call
StepOrders ==
    IF IsBatch THEN {res[b].order : b \in {b \in 1..Len(res) : res[b].oc \in {"success", "time_limit"}}}
    ELSE IF last.oc \in {"success", "time_limit"} THEN {last.order} ELSE {}

Product(a, b) == {Num("*", <<a, b>>), Num("*", <<b, a>>)}

\* the partial derivative of name(in) with respect to argument d, as the
\* values it may be computed as: cos(u), -sin(u), 1/u; v * u^(v-1) and
\* u^v * log(u)
Partial(name, in, d) ==
    IF name = "sin" THEN {Num("cos", <<in[1]>>)}
    ELSE IF name = "cos" THEN {Num("neg", <<Num("sin", <<in[1]>>)>>)}
    ELSE IF name = "log" THEN {Num("/", <<Num("1", <<>>), in[1]>>)}
    ELSE IF d = 0
    THEN Product(in[2], Num("pow", <<in[1], Num("-", <<in[2], Num("1", <<>>)>>)>>))
    ELSE Product(Num("pow", <<in[1], in[2]>>), Num("log", <<in[1]>>))

\* C30: deval_num_dbl on a call of sin, cos, log or pow returns the partial
\* derivative with respect to the argument of the index asked for (for pow
\* v * u^(v-1) at index 0 and u^v * log(u) at index 1), and throws for a
\* wrong number of values or an index that is not one of an argument;
\* update_grad_dbl hands to each argument acc times the partial derivative
\* with respect to that argument.
C30_PartialOfRequestedIndex ==
    /\ dec.op = "deval_num_dbl" /\ dec.orig[1].f.cb["deval_num_dbl_f"] # "" =>
          \A name \in {dec.orig[1].f.cb["deval_num_dbl_f"]}, in \in {dec.vars[1]}, d \in {dec.vars[2]} :
             IF Len(in) = expected_args(name) /\ d < expected_args(name)
             THEN dec.exc = "none" /\ dec.dc[1] \in Partial(name, in, d)
             ELSE dec.exc = "invalid_argument"
    /\ dec.op = "update_grad_dbl" /\ dec.orig[1].f.cb["deval_num_dbl_f"] # ""
       /\ Len(dec.orig[1].a) = expected_args(dec.orig[1].f.cb["deval_num_dbl_f"]) =>
          /\ dec.exc = "none"
          /\ Len(dec.dc) = Len(dec.orig[1].a)
          /\ \A i \in 1..Len(dec.dc) :
                \E p \in Partial(dec.orig[1].f.cb["deval_num_dbl_f"], dec.vars[1], i - 1) :
                   dec.dc[i] = Num("*", <<Num("acc", <<>>), p>>)

\* the derivative of pow with respect to its first argument was asked for and
\* a value was returned
C30_Witness ==
    /\ dec.op = "deval_num_dbl"
    /\ dec.orig[1].f.cb["deval_num_dbl_f"] = "pow"
    /\ Len(dec.vars[1]) = 2
    /\ dec.vars[2] = 0
    /\ dec.exc = "none"

\* what holds of the derivatives: the above for sin, cos and log; for pow
\* the value returned for index 0 and for index 1 is one and the same sum
\* v * u^(v-1) + log(u) * u^v
C30_PowReturnsSumOfPartials ==
    dec.op = "deval_num_dbl" /\ dec.orig[1].f.cb["deval_num_dbl_f"] # "" =>
        \A name \in {dec.orig[1].f.cb["deval_num_dbl_f"]}, in \in {dec.vars[1]}, d \in {dec.vars[2]} :
           IF Len(in) = expected_args(name) /\ d < expected_args(name)
           THEN /\ dec.exc = "none"
                /\ name # "pow" => dec.dc[1] \in Partial(name, in, d)
                /\ name = "pow" =>
                      \E p0 \in Partial(name, in, 0), p1 \in Partial(name, in, 1) :
                         dec.dc[1] = Num("+", <<p0, p1>>)
           ELSE dec.exc = "invalid_argument"

====
